---- MODULE Spec2Model ----
\* Model of the taze directory walker and package builder
\* (tools/taze/packages/walk.go) with the configuration it consumes
\* (tools/taze/config/config.go).
\*
\* File names, package names and path segments are sequences of one-character
\* strings, so that suffix tests, slicing and lexical order are computed.
\* A repository-relative path is the sequence of its segments; <<>> is the
\* repository root.
EXTENDS Integers, Sequences, FiniteSets, TLC

VARIABLES
    fs,         \* the directory tree on disk: path -> node
    cfg0,       \* the *config.Config handed to Walk, with the walk root
    c,          \* Walk's variable c, which the closure visit captures
    stack,      \* activation records of visit, innermost last
    calls,      \* the invocations of the WalkFunc f, in order
    entered,    \* the directories visit was called on, in order
    log,        \* multiple-package reports printed by buildPackage
    pc,         \* "start" | "walking" | "done"
    run,        \* number of the current call of Walk
    prevCalls,  \* calls of the previous call of Walk
    prevLog,    \* log of the previous call of Walk
    changed,    \* what was changed on disk before the current call of Walk
    visits,     \* run's visit records: the generated rules of each directory
    generated,  \* the visit records as the generator left them
    rpos,       \* position of run's resolver loop: visit and rule index
    fnCall,     \* a function under test with its arguments
    fnResult,   \* what that function returned and left behind
    mergeIn,    \* mergeAndEmit's arguments: config, emit mode, generation
    disk,       \* the build file of the directory on disk
    merged,     \* the last run: the file on disk before it and the file it emitted
    emitted,    \* what each run so far handed to emit, in order
    mrun,       \* number of runs of mergeAndEmit so far
    runIn,      \* run's arguments: the command and the emit function
    dirIdx,     \* run's position in its loop over c.Dirs
    mpos,       \* run's position in its loop of mergeAndEmit over visits
    events,     \* what run has done so far, in order
    jsfs,       \* the files behind concatjs' FileSystem: path -> file
    entries,    \* FileCache.entries: path -> *cacheEntry
    entries0,   \* entries as they were when the current WriteFiles call began
    wfiles,     \* the files argument of the current WriteFiles call
    cpc,        \* position of the goroutine that called WriteFiles
    sent,       \* number of work items refreshFiles has sent
    workers,    \* the goroutines refreshFiles started: id -> local state
    wg,         \* the counter of refreshFiles' sync.WaitGroup
    written,    \* what WriteFiles has written to w, one element per listed file
    readLog,    \* the files readFile was called on since they last changed
    changes     \* number of changes made to the files so far

walkVars == <<fs, cfg0, c, stack, calls, entered, log, pc, run, prevCalls, prevLog, changed>>
resolveVars == <<visits, generated, rpos, fnCall, fnResult>>
mergeVars == <<mergeIn, disk, merged, emitted, mrun>>
runVars == <<runIn, dirIdx, mpos, events>>
cacheVars == <<jsfs, entries, entries0, wfiles, cpc, sent, workers, wg, written, readLog, changes>>
nonWalkVars == <<resolveVars, mergeVars, runVars, cacheVars>>
nonResolveVars == <<walkVars, mergeVars, runVars, cacheVars>>
nonMergeVars == <<walkVars, resolveVars, runVars, cacheVars>>
nonCacheVars == <<walkVars, resolveVars, mergeVars, runVars>>
vars == <<walkVars, resolveVars, mergeVars, runVars, cacheVars>>

\* ---------------------------------------------------------------- strings

n_a == <<"a">>
n_b == <<"b">>
n_c == <<"c">>
n_x == <<"x">>
n_testdata == <<"t", "e", "s", "t", "d", "a", "t", "a">>
n_vendor == <<"v", "e", "n", "d", "o", "r">>
n_main == <<"m", "a", "i", "n">>
n_documentation == <<"d", "o", "c", "u", "m", "e", "n", "t", "a", "t", "i", "o", "n">>
n_unnamed == <<"u", "n", "n", "a", "m", "e", "d">>
f_BUILD == <<"B", "U", "I", "L", "D">>
f_BUILD_bazel == <<"B", "U", "I", "L", "D", ".", "b", "a", "z", "e", "l">>
f_a_go == <<"a", ".", "g", "o">>
f_b_go == <<"b", ".", "g", "o">>
f_c_go == <<"c", ".", "g", "o">>
f_a_proto == <<"a", ".", "p", "r", "o", "t", "o">>
f_a_pb_go == <<"a", ".", "p", "b", ".", "g", "o">>
f_x_c == <<"x", ".", "c">>
f_w_txt == <<"w", ".", "t", "x", "t">>
f_y_s == <<"y", ".", "s">>
f_z_S == <<"z", ".", "S">>
f_gen_go == <<"g", "e", "n", ".", "g", "o">>
f_hidden == <<".", "h", "i", "d", ".", "g", "o">>
f_under == <<"_", "u", ".", "g", "o">>
ext_go == <<".", "g", "o">>
ext_proto == <<".", "p", "r", "o", "t", "o">>
ext_pb_go == <<".", "p", "b", ".", "g", "o">>
ext_c == <<".", "c">>
ext_s == <<".", "s">>
ext_S == <<".", "S">>
ext_txt == <<".", "t", "x", "t">>
m_default == <<"d", "e", "f", "a", "u", "l", "t">>
m_disable == <<"d", "i", "s", "a", "b", "l", "e">>
m_legacy == <<"l", "e", "g", "a", "c", "y">>

\* The characters in use, in byte order.
Chars == <<".", "B", "D", "I", "L", "S", "U", "_", "a", "b", "c", "d", "e", "g", "h", "i", "l", "m", "n", "o", "p", "r", "s", "t", "u", "v", "w", "x", "y", "z">>

Ord(ch) == CHOOSE i \in 1..Len(Chars) : Chars[i] = ch

\* strings.HasSuffix
HasSuffix(s, suf) ==
    /\ Len(s) >= Len(suf)
    /\ SubSeq(s, Len(s) - Len(suf) + 1, Len(s)) = suf

\* strings.HasPrefix on slash-separated paths, applied to rel and
\* updateRel + "/": the segments of updateRel are the first segments of rel
\* and rel has more.
HasDirPrefix(rel, updateRel) ==
    /\ Len(rel) > Len(updateRel)
    /\ SubSeq(rel, 1, Len(updateRel)) = updateRel

\* Byte-wise order of two strings.
RECURSIVE StrLess(_, _)
StrLess(s, t) ==
    IF s = <<>> THEN t # <<>>
    ELSE IF t = <<>> THEN FALSE
    ELSE IF s[1] = t[1] THEN StrLess(Tail(s), Tail(t))
    ELSE Ord(s[1]) < Ord(t[1])

RECURSIVE SortNames(_)
SortNames(S) ==
    IF S = {} THEN <<>>
    ELSE LET m == CHOOSE x \in S : \A y \in S \ {x} : StrLess(x, y)
         IN  <<m>> \o SortNames(S \ {m})

\* path.Ext: the suffix beginning at the final dot, or "" without a dot.
PathExt(s) ==
    LET dots == {i \in 1..Len(s) : s[i] = "."}
    IN  IF dots = {} THEN <<>>
        ELSE LET i == CHOOSE d \in dots : \A e \in dots : e <= d
             IN  SubSeq(s, i, Len(s))

\* filepath.Base of RepoRoot joined with rel, for rel below the root.
Base(rel) == rel[Len(rel)]

Range(s) == {s[i] : i \in 1..Len(s)}

\* ------------------------------------------------------------ file system

\* What a file holds, as read by whichever parser is applied to it.
Content(parses, directives, loads, rules, pkg, cgo) ==
    [parses |-> parses, directives |-> directives, loads |-> loads,
     rules |-> rules, pkg |-> pkg, cgo |-> cgo]

NoContent == Content(FALSE, <<>>, "none", <<>>, <<>>, FALSE)

DirNode(listable) == [kind |-> "dir", ok |-> listable, content |-> NoContent]
FileNode(readable, content) == [kind |-> "file", ok |-> readable, content |-> content]

\* A *bf.File: nil, or the parsed file with its base name.
NilFile == [isNil |-> TRUE, base |-> <<>>, content |-> NoContent]
ParsedFile(base, content) == [isNil |-> FALSE, base |-> base, content |-> content]

\* ioutil.ReadDir: the entries of a directory sorted by name.
ReadDirOk(tree, rel) == tree[rel].ok
ReadDir(tree, rel) ==
    SortNames({p[Len(p)] : p \in {q \in DOMAIN tree :
                  Len(q) = Len(rel) + 1 /\ SubSeq(q, 1, Len(rel)) = rel}})
IsDir(tree, rel, base) == tree[Append(rel, base)].kind = "dir"

\* ----------------------------------------------------------- configuration

ProtoModes == {"default", "disable", "legacy"}

\* config.ProtoModeFromString: the mode, or "error".
ProtoModeFromString(s) ==
    CASE s = m_default -> "default"
      [] s = m_disable -> "disable"
      [] s = m_legacy -> "legacy"
      [] OTHER -> "error"

\* config.ParseDirectives: the key/value pairs of the top-level comments.
ParseDirectives(f) == f.content.directives

\* config.ApplyDirectives: a copy of c changed by the directives that
\* configure; the proto directive sets the proto mode when its value is a mode.
RECURSIVE ApplyDirectives(_, _)
ApplyDirectives(cfg, directives) ==
    IF directives = <<>> THEN cfg
    ELSE LET d == Head(directives)
             m == IF d.Key = "proto" THEN ProtoModeFromString(d.Value) ELSE "error"
         IN  ApplyDirectives(
                 IF d.Key = "proto" /\ m # "error"
                 THEN [cfg EXCEPT !.ProtoMode = m] ELSE cfg,
                 Tail(directives))

\* config.InferProtoMode: in default mode and without a proto directive, a
\* file that loads go_proto_library.bzl switches to legacy mode and one that
\* loads go_proto_library from elsewhere disables proto rules.
InferProtoMode(cfg, f, directives) ==
    IF cfg.ProtoMode # "default" THEN cfg
    ELSE IF \E i \in 1..Len(directives) : directives[i].Key = "proto" THEN cfg
    ELSE IF f.isNil THEN cfg
    ELSE IF f.content.loads = "legacy" THEN [cfg EXCEPT !.ProtoMode = "legacy"]
    ELSE IF f.content.loads = "other" THEN [cfg EXCEPT !.ProtoMode = "disable"]
    ELSE cfg

\* ------------------------------------------------- Walk.visit, on entry

\* Walk, lines 61-74: the relative paths of the directories to update.
UpdateRels(cfg) == cfg.Dirs

\* visit, lines 89-96: whether this directory should be updated.
CheckUpdateDir(isUpdateDir, rel, updateRels) ==
    \/ isUpdateDir
    \/ \E i \in 1..Len(updateRels) :
          \/ updateRels[i] = <<>>
          \/ rel = updateRels[i]
          \/ HasDirPrefix(rel, updateRels[i])

\* visit, lines 98-125: look for an existing build file among the valid
\* names. bf.Parse gives nil together with an error.
RECURSIVE LookForBuildFile(_, _, _, _, _)
LookForBuildFile(tree, rel, names, oldFile, haveError) ==
    IF names = <<>> THEN [oldFile |-> oldFile, haveError |-> haveError]
    ELSE LET base == Head(names)
             oldPath == Append(rel, base)
         IN  IF oldPath \notin DOMAIN tree \/ tree[oldPath].kind = "dir"
             THEN LookForBuildFile(tree, rel, Tail(names), oldFile, haveError)
             ELSE IF ~tree[oldPath].ok
             THEN LookForBuildFile(tree, rel, Tail(names), oldFile, TRUE)
             ELSE IF ~oldFile.isNil
             THEN LookForBuildFile(tree, rel, Tail(names), oldFile, TRUE)
             ELSE IF ~tree[oldPath].content.parses
             THEN LookForBuildFile(tree, rel, Tail(names), NilFile, TRUE)
             ELSE LookForBuildFile(tree, rel, Tail(names),
                                   ParsedFile(base, tree[oldPath].content), haveError)

\* visit, lines 127-133: the configuration after the directives of oldFile.
ProcessDirectives(cfg, oldFile) ==
    LET directives == IF oldFile.isNil THEN <<>> ELSE ParseDirectives(oldFile)
        applied == IF oldFile.isNil THEN cfg ELSE ApplyDirectives(cfg, directives)
    IN  InferProtoMode(applied, oldFile, directives)

\* visit, lines 135-140: the names given by exclude directives.
ExcludedByDirectives(directives) ==
    {directives[i].Value : i \in {j \in 1..Len(directives) : directives[j].Key = "exclude"}}

\* Mutant of excludePbGoFiles: an excluded .proto file still excludes its
\* .pb.go file.
RECURSIVE excludePbGoFilesOfExcluded(_, _)
excludePbGoFilesOfExcluded(files, excluded) ==
    IF files = <<>> THEN excluded
    ELSE LET name == Head(files)
         IN  IF HasSuffix(name, ext_proto)
             THEN excludePbGoFilesOfExcluded(Tail(files),
                      excluded \cup {SubSeq(name, 1, Len(name) - Len(ext_proto)) \o ext_pb_go})
             ELSE excludePbGoFilesOfExcluded(Tail(files), excluded)

\* excludePbGoFiles, lines 371-381.
RECURSIVE excludePbGoFiles(_, _)
excludePbGoFiles(files, excluded) ==
    IF files = <<>> THEN excluded
    ELSE LET name == Head(files)
         IN  IF name \in excluded THEN excludePbGoFiles(Tail(files), excluded)
             ELSE IF HasSuffix(name, ext_proto)
             THEN excludePbGoFiles(Tail(files),
                      excluded \cup {SubSeq(name, 1, Len(name) - Len(ext_proto)) \o ext_pb_go})
             ELSE excludePbGoFiles(Tail(files), excluded)

\* Mutant of EntryClass: the exclude directives are not consulted.
EntryClassNoExclude(cfg, tree, rel, base, excluded) ==
    IF \/ base = <<>>
       \/ base[1] = "."
       \/ base[1] = "_"
       \/ (base = n_vendor /\ IsDir(tree, rel, base) /\ cfg.DepMode = "external")
    THEN "skip"
    ELSE IF IsDir(tree, rel, base) THEN "subdir"
    ELSE IF \/ HasSuffix(base, ext_go)
            \/ (cfg.ProtoMode # "disable" /\ HasSuffix(base, ext_proto))
    THEN "pkg"
    ELSE "other"

\* visit, lines 152-171: the class of one directory entry.
EntryClass(cfg, tree, rel, base, excluded) ==
    IF \/ base = <<>>
       \/ base[1] = "."
       \/ base[1] = "_"
       \/ base \in excluded
       \/ (base = n_vendor /\ IsDir(tree, rel, base) /\ cfg.DepMode = "external")
    THEN "skip"
    ELSE IF IsDir(tree, rel, base) THEN "subdir"
    ELSE IF \/ HasSuffix(base, ext_go)
            \/ (cfg.ProtoMode # "disable" /\ HasSuffix(base, ext_proto))
    THEN "pkg"
    ELSE "other"

EntriesOfClass(cfg, tree, rel, files, excluded, class) ==
    LET Is(base) == EntryClass(cfg, tree, rel, base, excluded) = class
    IN  SelectSeq(files, Is)

\* visit, lines 88-171: everything visit does before it recurses. The result
\* holds the new value of c, whether ioutil.ReadDir succeeded, and the
\* activation record.
EnterDir(cfg, tree, rel, inheritedUpdate, updateRels) ==
    LET isUpdateDir == CheckUpdateDir(inheritedUpdate, rel, updateRels)
        found == LookForBuildFile(tree, rel, cfg.ValidBuildFileNames, NilFile, FALSE)
        oldFile == found.oldFile
        directives == IF oldFile.isNil THEN <<>> ELSE ParseDirectives(oldFile)
        cfg1 == ProcessDirectives(cfg, oldFile)
        excluded0 == ExcludedByDirectives(directives)
        files == ReadDir(tree, rel)
        excluded == IF cfg1.ProtoMode = "default"
                    THEN excludePbGoFiles(files, excluded0) ELSE excluded0
    IN  [c |-> cfg1,
         ok |-> ReadDirOk(tree, rel),
         frame |-> [rel |-> rel,
                    isUpdateDir |-> isUpdateDir,
                    oldFile |-> oldFile,
                    haveError |-> found.haveError,
                    excluded |-> excluded,
                    pkgFiles |-> EntriesOfClass(cfg1, tree, rel, files, excluded, "pkg"),
                    otherFiles |-> EntriesOfClass(cfg1, tree, rel, files, excluded, "other"),
                    subdirs |-> EntriesOfClass(cfg1, tree, rel, files, excluded, "subdir"),
                    next |-> 1,
                    hasTestdata |-> FALSE,
                    subdirHasPackage |-> FALSE,
                    classMode |-> cfg1.ProtoMode]]

\* ------------------------------------------------------- package builder

\* The category fileNameInfo derives from the extension of a file name.
\* TestGenerated and TestGeneratedCgo fix the classes of .go, .c, .s, .S and
\* .txt, TestProtoOnly that of .proto; names of other extensions occur in no
\* directory or build file of this development.
Category(name) ==
    LET ext == PathExt(name)
    IN  CASE ext = ext_go -> "go"
          [] ext = ext_proto -> "proto"
          [] ext = ext_c -> "c"
          [] ext = ext_S -> "cs"
          [] ext = ext_s -> "s"
          [] OTHER -> "ignored"

\* fileNameInfo: what the name alone tells about a file.
fileNameInfo(name) ==
    [name |-> name, packageName |-> <<>>, isCgo |-> FALSE, category |-> Category(name)]

\* otherFileInfo: the information about a static file that is no source.
otherFileInfo(name) == fileNameInfo(name)

\* goFileInfo: the package clause and the import "C" marker of a .go file;
\* the package name stays empty when the file cannot be read or parsed.
goFileInfo(tree, rel, name) ==
    LET node == tree[Append(rel, name)]
    IN  IF node.ok
        THEN [fileNameInfo(name) EXCEPT !.packageName = node.content.pkg,
                                        !.isCgo = node.content.cgo]
        ELSE fileNameInfo(name)

\* protoFileInfo: the package of a .proto file, by default the file's stem.
protoFileInfo(tree, rel, name) ==
    LET node == tree[Append(rel, name)]
        stem == SubSeq(name, 1, Len(name) - Len(ext_proto))
    IN  IF ~node.ok THEN fileNameInfo(name)
        ELSE [fileNameInfo(name) EXCEPT
                 !.packageName = IF node.content.pkg = <<>> THEN stem
                                 ELSE node.content.pkg]

NilPackage ==
    [isNil |-> TRUE, Name |-> <<>>, Rel |-> <<>>, HasTestdata |-> FALSE,
     Sources |-> <<>>, ProtoSources |-> <<>>, Cgo |-> FALSE]

\* buildPackage, lines 238-243.
NewPackage(name, rel, hasTestdata) ==
    [isNil |-> FALSE, Name |-> name, Rel |-> rel, HasTestdata |-> hasTestdata,
     Sources |-> <<>>, ProtoSources |-> <<>>, Cgo |-> FALSE]

\* addFile that takes C and preprocessed assembly with or without cgo.
addFileAnyCgo(pkg, cfg, info, cgo) ==
    IF \/ info.category = "ignored"
       \/ (info.category = "proto" /\ cfg.ProtoMode = "disable")
    THEN pkg
    ELSE IF info.category = "proto"
    THEN [pkg EXCEPT !.ProtoSources = Append(@, info.name)]
    ELSE [pkg EXCEPT !.Sources = Append(@, info.name),
                     !.Cgo = @ \/ info.isCgo]

\* Package.addFile: files of an ignored kind are dropped, C and assembly
\* that needs the C preprocessor are kept only with cgo, schema files are
\* ignored in disable proto mode and go to the proto target otherwise, and
\* all others go to the library's sources.
addFile(pkg, cfg, info, cgo) ==
    IF \/ info.category = "ignored"
       \/ (~cgo /\ info.category \in {"c", "cs"})
       \/ (info.category = "proto" /\ cfg.ProtoMode = "disable")
    THEN pkg
    ELSE IF info.category = "proto"
    THEN [pkg EXCEPT !.ProtoSources = Append(@, info.name)]
    ELSE [pkg EXCEPT !.Sources = Append(@, info.name),
                     !.Cgo = @ \/ info.isCgo]

\* Package.isBuildable: Go sources on some platform, or schema files in
\* default proto mode.
isBuildable(pkg, cfg) ==
    \/ \E i \in 1..Len(pkg.Sources) : Category(pkg.Sources[i]) = "go"
    \/ (pkg.ProtoSources # <<>> /\ cfg.ProtoMode = "default")

\* Package.firstGoFile: the first .go file of the package, "" without one.
firstGoFile(pkg) ==
    LET gos == {i \in 1..Len(pkg.Sources) : Category(pkg.Sources[i]) = "go"}
    IN  IF gos = {} THEN <<>>
        ELSE pkg.Sources[CHOOSE i \in gos : \A j \in gos : i <= j]

\* defaultPackageName, lines 333-343. GoPrefix is the sequence of the
\* segments of the prefix; path.Base is its last segment, "." for the empty
\* prefix.
defaultPackageName(cfg, rel) ==
    IF rel # <<>> THEN Base(rel)
    ELSE LET name == IF cfg.GoPrefix = <<>> THEN <<".">>
                     ELSE cfg.GoPrefix[Len(cfg.GoPrefix)]
         IN  IF name = <<".">> \/ name = <<"/">> THEN n_unnamed ELSE name

NoError == [kind |-> "none", Packages |-> <<>>, Files |-> <<>>]
NoGoError == [kind |-> "NoGoError", Packages |-> <<>>, Files |-> <<>>]

\* The orders in which a range loop may deliver the keys of a map.
MapOrders(keys) ==
    {s \in [1..Cardinality(keys) -> keys] : \A i, j \in DOMAIN s : s[i] = s[j] => i = j}

\* selectPackage, lines 321-330: the report, for one order of the map.
MultiplePackageError(buildablePackages, order) ==
    [kind |-> "MultiplePackageError",
     Packages |-> order,
     Files |-> [i \in DOMAIN order |-> firstGoFile(buildablePackages[order[i]])]]

\* Mutant of selectPackage: a single buildable package is not returned
\* unless it has the default name.
selectPackageNoSingle(cfg, rel, packageMap) ==
    LET names == {n \in DOMAIN packageMap : isBuildable(packageMap[n], cfg)}
        buildablePackages == [n \in names |-> packageMap[n]]
    IN  IF Cardinality(names) = 0
        THEN {[pkg |-> NilPackage, err |-> NoGoError]}
        ELSE IF defaultPackageName(cfg, rel) \in names
        THEN {[pkg |-> buildablePackages[defaultPackageName(cfg, rel)], err |-> NoError]}
        ELSE {[pkg |-> NilPackage, err |-> MultiplePackageError(buildablePackages, order)] :
                 order \in MapOrders(names)}

\* Mutant of selectPackage: without a package of the default name, one of
\* the buildable packages is returned.
selectPackageAny(cfg, rel, packageMap) ==
    LET names == {n \in DOMAIN packageMap : isBuildable(packageMap[n], cfg)}
        buildablePackages == [n \in names |-> packageMap[n]]
    IN  IF Cardinality(names) = 0
        THEN {[pkg |-> NilPackage, err |-> NoGoError]}
        ELSE IF defaultPackageName(cfg, rel) \in names
        THEN {[pkg |-> buildablePackages[defaultPackageName(cfg, rel)], err |-> NoError]}
        ELSE {[pkg |-> buildablePackages[n], err |-> NoError] : n \in names}

\* selectPackage, lines 299-331: the results it may return.
selectPackage(cfg, rel, packageMap) ==
    LET names == {n \in DOMAIN packageMap : isBuildable(packageMap[n], cfg)}
        buildablePackages == [n \in names |-> packageMap[n]]
    IN  IF Cardinality(names) = 0
        THEN {[pkg |-> NilPackage, err |-> NoGoError]}
        ELSE IF Cardinality(names) = 1
        THEN {[pkg |-> buildablePackages[n], err |-> NoError] : n \in names}
        ELSE IF defaultPackageName(cfg, rel) \in names
        THEN {[pkg |-> buildablePackages[defaultPackageName(cfg, rel)], err |-> NoError]}
        ELSE {[pkg |-> NilPackage, err |-> MultiplePackageError(buildablePackages, order)] :
                 order \in MapOrders(names)}

\* buildPackage, lines 212-248: group the source files by package name.
RECURSIVE GroupPkgFiles(_, _, _, _, _, _)
GroupPkgFiles(cfg, tree, rel, pkgFiles, hasTestdata, acc) ==
    IF pkgFiles = <<>> THEN acc
    ELSE LET f == Head(pkgFiles)
             info == IF PathExt(f) = ext_go THEN goFileInfo(tree, rel, f)
                     ELSE protoFileInfo(tree, rel, f)
             name == info.packageName
             old == IF name \in DOMAIN acc.packageMap THEN acc.packageMap[name]
                    ELSE NewPackage(name, rel, hasTestdata)
             acc1 == IF name = <<>>
                     THEN [acc EXCEPT !.unknown = Append(@, info)]
                     ELSE IF name = n_documentation THEN acc
                     ELSE [acc EXCEPT
                              !.cgo = @ \/ info.isCgo,
                              !.packageMap = [n \in DOMAIN @ \cup {name} |->
                                                 IF n = name THEN addFile(old, cfg, info, FALSE)
                                                 ELSE @[n]]]
         IN  GroupPkgFiles(cfg, tree, rel, Tail(pkgFiles), hasTestdata, acc1)

RECURSIVE AddFiles(_, _, _, _)
AddFiles(pkg, cfg, infos, cgo) ==
    IF infos = <<>> THEN pkg
    ELSE AddFiles(addFile(pkg, cfg, Head(infos), cgo), cfg, Tail(infos), cgo)

\* buildPackage, lines 259-296: the files added to the selected package.
CompletePackage(pkg, cfg, unknown, pkgFiles, otherFiles, genFiles, cgo) ==
    LET staticFiles == Range(pkgFiles) \cup Range(otherFiles)
        NotStatic(f) == f \notin staticFiles
        gen == SelectSeq(genFiles, NotStatic)
        p1 == AddFiles(pkg, cfg, unknown, cgo)
        p2 == AddFiles(p1, cfg, [i \in DOMAIN otherFiles |-> otherFileInfo(otherFiles[i])], cgo)
    IN  AddFiles(p2, cfg, [i \in DOMAIN gen |-> fileNameInfo(gen[i])], cgo)

\* buildPackage, lines 211-297: the results it may return, each with the
\* error it logged.
buildPackage(cfg, tree, rel, pkgFiles, otherFiles, genFiles, hasTestdata) ==
    LET grouped == GroupPkgFiles(cfg, tree, rel, pkgFiles, hasTestdata,
                       [packageMap |-> <<>>, cgo |-> FALSE, unknown |-> <<>>])
    IN  {IF sel.err.kind # "none" THEN sel
         ELSE [pkg |-> CompletePackage(sel.pkg, cfg, grouped.unknown, pkgFiles,
                                       otherFiles, genFiles, grouped.cgo),
               err |-> NoError] :
            sel \in selectPackage(cfg, rel, grouped.packageMap)}

\* findGenFiles, lines 345-369. A rule is a record of its out and outs
\* attributes, each absent, a string, a list whose elements are strings or
\* other expressions, or another expression.
AttrStrings(attr) ==
    IF attr.t = "str" THEN <<attr.v>>
    ELSE IF attr.t = "list"
    THEN LET IsStr(e) == e.t = "str"
             strs == SelectSeq(attr.v, IsStr)
         IN  [i \in DOMAIN strs |-> strs[i].v]
    ELSE <<>>

RECURSIVE RuleStrings(_)
RuleStrings(rules) ==
    IF rules = <<>> THEN <<>>
    ELSE AttrStrings(Head(rules).out) \o AttrStrings(Head(rules).outs)
         \o RuleStrings(Tail(rules))

findGenFiles(f, excluded) ==
    LET NotExcluded(str) == str \notin excluded
    IN  SelectSeq(RuleStrings(f.content.rules), NotExcluded)

\* ----------------------------------------------------------------- Walk

MaxRuns == 2

Top == stack[Len(stack)]

\* The invocation f(rel, c, pkg, oldFile, isUpdateDir), with the activation
\* record of the visit that made it.
Call(frame, cfg, pkg) ==
    [rel |-> frame.rel, c |-> cfg, pkg |-> pkg, oldFile |-> frame.oldFile,
     isUpdateDir |-> frame.isUpdateDir, frame |-> frame]

\* visit, lines 176-182: the caller's activation record after visit of its
\* next subdirectory has returned hasPackage.
AfterSubdir(frame, hasPackage) ==
    [frame EXCEPT
        !.hasTestdata = @ \/ (frame.subdirs[frame.next] = n_testdata /\ ~hasPackage),
        !.subdirHasPackage = @ \/ hasPackage,
        !.next = @ + 1]

\* A visit returns hasPackage to its caller: to Walk when it is the visit of
\* the root, to the loop over subdirs of the enclosing visit otherwise.
ReturnTo(callers, hasPackage) ==
    IF callers = <<>>
    THEN /\ stack' = <<>>
         /\ pc' = "done"
    ELSE /\ stack' = [callers EXCEPT ![Len(callers)] = AfterSubdir(@, hasPackage)]
         /\ pc' = "walking"

\* Walk, line 200: visit(root, rootRel, false), up to its first recursion.
WalkStart ==
    /\ pc = "start"
    /\ LET e == EnterDir(c, fs, cfg0.root, FALSE, UpdateRels(cfg0.c))
       IN  /\ c' = e.c
           /\ entered' = Append(entered, cfg0.root)
           /\ IF e.ok
              THEN /\ stack' = <<e.frame>>
                   /\ pc' = "walking"
              ELSE ReturnTo(<<>>, FALSE)
    /\ UNCHANGED <<fs, cfg0, calls, log, run, prevCalls, prevLog, changed>>
    /\ UNCHANGED nonWalkVars

\* Mutant of VisitSubdir: the callback is also invoked on the way down,
\* before the first subdirectory is visited.
VisitSubdirCallFirst ==
    /\ pc = "walking"
    /\ Top.next <= Len(Top.subdirs)
    /\ LET sub == Top.subdirs[Top.next]
           e == EnterDir(c, fs, Append(Top.rel, sub), Top.isUpdateDir, UpdateRels(cfg0.c))
       IN  /\ c' = e.c
           /\ entered' = Append(entered, Append(Top.rel, sub))
           /\ calls' = IF Top.next = 1 THEN Append(calls, Call(Top, c, NilPackage)) ELSE calls
           /\ IF e.ok
              THEN /\ stack' = Append(stack, e.frame)
                   /\ pc' = "walking"
              ELSE ReturnTo(stack, FALSE)
    /\ UNCHANGED <<fs, cfg0, log, run, prevCalls, prevLog, changed>>
    /\ UNCHANGED nonWalkVars

\* visit, line 177: the call of visit for the next subdirectory, up to its
\* first recursion; a directory that cannot be listed returns false at once
\* (lines 143-147).
VisitSubdir ==
    /\ pc = "walking"
    /\ Top.next <= Len(Top.subdirs)
    /\ LET sub == Top.subdirs[Top.next]
           e == EnterDir(c, fs, Append(Top.rel, sub), Top.isUpdateDir, UpdateRels(cfg0.c))
       IN  /\ c' = e.c
           /\ entered' = Append(entered, Append(Top.rel, sub))
           /\ IF e.ok
              THEN /\ stack' = Append(stack, e.frame)
                   /\ pc' = "walking"
              ELSE ReturnTo(stack, FALSE)
    /\ UNCHANGED <<fs, cfg0, calls, log, run, prevCalls, prevLog, changed>>
    /\ UNCHANGED nonWalkVars

\* visit, lines 184-197: after the subdirectories, build the package, invoke
\* the callback and return.
VisitReturnStep ==
    /\ pc = "walking"
    /\ Top.next > Len(Top.subdirs)
    /\ LET frame == Top
           callers == SubSeq(stack, 1, Len(stack) - 1)
           hasPackage == frame.subdirHasPackage \/ ~frame.oldFile.isNil
       IN  IF frame.haveError \/ ~frame.isUpdateDir
           THEN /\ calls' = Append(calls, Call(frame, c, NilPackage))
                /\ log' = log
                /\ ReturnTo(callers, hasPackage)
           ELSE LET genFiles == IF frame.oldFile.isNil THEN <<>>
                                ELSE findGenFiles(frame.oldFile, frame.excluded)
                IN  \E res \in buildPackage(c, fs, frame.rel, frame.pkgFiles,
                                            frame.otherFiles, genFiles, frame.hasTestdata) :
                       /\ calls' = Append(calls, Call(frame, c, res.pkg))
                       /\ log' = IF res.err.kind = "MultiplePackageError"
                                 THEN Append(log, [rel |-> frame.rel, err |-> res.err])
                                 ELSE log
                       /\ ReturnTo(callers, hasPackage \/ ~res.pkg.isNil)
    /\ UNCHANGED <<fs, cfg0, c, entered, run, prevCalls, prevLog, changed>>

VisitReturn ==
    /\ VisitReturnStep
    /\ UNCHANGED nonWalkVars

\* The directories whose loaded build file carries directives.
BuildFilePaths(tree) ==
    {p \in DOMAIN tree : /\ tree[p].kind = "file"
                         /\ p[Len(p)] \in {f_BUILD, f_BUILD_bazel}
                         /\ tree[p].content.directives # <<>>}

\* The tree with the directives removed from the build files of directory d.
StripDirectives(tree, d) ==
    [p \in DOMAIN tree |->
        IF p \in BuildFilePaths(tree) /\ SubSeq(p, 1, Len(p) - 1) = d
        THEN [tree[p] EXCEPT !.content.directives = <<>>]
        ELSE tree[p]]

NoChange == [kind |-> "none", rel |-> <<>>]

\* No function under test, and no result yet.
NoCall == [fn |-> "none"]
NoResult == [done |-> FALSE]

\* No build file: the nil *bf.File of a directory without one, and the nil
\* that merger.MergeWithExisting returns.
NoBuildFile == [isNil |-> TRUE]

\* run is not running.
IdleRun ==
    /\ runIn = [fn |-> "none"]
    /\ dirIdx = 1
    /\ mpos = 1
    /\ events = <<>>

\* No FileCache has been constructed.
IdleCache ==
    /\ jsfs = <<>>
    /\ entries = <<>>
    /\ entries0 = <<>>
    /\ wfiles = <<>>
    /\ cpc = "none"
    /\ sent = 0
    /\ workers = <<>>
    /\ wg = 0
    /\ written = <<>>
    /\ readLog = {}
    /\ changes = 0

\* mergeAndEmit is not running.
IdleMerge ==
    /\ mergeIn = [fn |-> "none"]
    /\ disk = NoBuildFile
    /\ merged = [existing |-> NoBuildFile, emit |-> FALSE, file |-> NoBuildFile]
    /\ emitted = <<>>
    /\ mrun = 0

\* Walk is called again with the same configuration, on the same tree or on
\* the tree with the directives of one directory removed.
WalkAgain ==
    /\ pc = "done"
    /\ run < MaxRuns
    /\ \/ /\ fs' = fs
          /\ changed' = NoChange
       \/ \E p \in BuildFilePaths(fs) :
             LET d == SubSeq(p, 1, Len(p) - 1)
             IN  /\ fs' = StripDirectives(fs, d)
                 /\ changed' = [kind |-> "strip", rel |-> d]
    /\ prevCalls' = calls
    /\ prevLog' = log
    /\ run' = run + 1
    /\ c' = cfg0.c
    /\ stack' = <<>>
    /\ calls' = <<>>
    /\ entered' = <<>>
    /\ log' = <<>>
    /\ pc' = "start"
    /\ UNCHANGED cfg0
    /\ UNCHANGED nonWalkVars

Next == WalkStart \/ VisitSubdir \/ VisitReturn \/ WalkAgain

\* ------------------------------------------------------------ the inputs

Exclude(name) == [Key |-> "exclude", Value |-> name]
Ignore == [Key |-> "ignore", Value |-> ""]
Proto(mode) == [Key |-> "proto", Value |-> mode]

NoAttr == [t |-> "none", v |-> <<>>]
StrAttr(str) == [t |-> "str", v |-> str]
ListAttr(elems) == [t |-> "list", v |-> elems]
OtherExpr == [t |-> "other", v |-> <<>>]
Rule(out, outs) == [out |-> out, outs |-> outs]

Dir == DirNode(TRUE)
GoSrc(pkg, cgo) == FileNode(TRUE, Content(FALSE, <<>>, "none", <<>>, pkg, cgo))
ProtoSrc(pkg) == FileNode(TRUE, Content(FALSE, <<>>, "none", <<>>, pkg, FALSE))
Static == FileNode(TRUE, NoContent)
Build(directives, loads, rules) ==
    FileNode(TRUE, Content(TRUE, directives, loads, rules, <<>>, FALSE))
Malformed == FileNode(TRUE, NoContent)
Unreadable == FileNode(FALSE, NoContent)

Nothing == <<>>

Config(dirs, goPrefix, depMode) ==
    [Dirs |-> dirs, GoPrefix |-> goPrefix, DepMode |-> depMode,
     ProtoMode |-> "default", ValidBuildFileNames |-> <<f_BUILD_bazel, f_BUILD>>]

GenRule == Rule(StrAttr(f_gen_go), ListAttr(<<StrAttr(f_c_go), OtherExpr, StrAttr(f_x_c)>>))

\* Build files of the repository root.
RootBuilds ==
    {Nothing,
     <<f_BUILD>> :> Build(<<Proto(m_legacy)>>, "none", <<>>),
     <<f_BUILD>> :> Build(<<>>, "legacy", <<>>)}

\* Directory a: three sources, a build file, and a subdirectory x.
ASources ==
    (<<n_a, f_a_go>> :> GoSrc(n_a, FALSE)) @@
    (<<n_a, f_a_proto>> :> ProtoSrc(n_a)) @@
    (<<n_a, f_a_pb_go>> :> GoSrc(n_a, FALSE)) @@
    (<<n_a, f_w_txt>> :> Static) @@
    (<<n_a, f_hidden>> :> GoSrc(n_main, FALSE)) @@
    (<<n_a, f_under>> :> GoSrc(n_main, FALSE))

ABuilds ==
    {Nothing,
     <<n_a, f_BUILD>> :> Build(<<>>, "none", <<GenRule>>),
     <<n_a, f_BUILD>> :> Build(<<Proto(m_disable)>>, "none", <<>>),
     <<n_a, f_BUILD>> :> Build(<<Proto(m_legacy), Exclude(f_a_proto)>>, "none", <<>>),
     <<n_a, f_BUILD>> :> Build(<<Exclude(f_a_go), Exclude(n_x), Exclude(f_gen_go)>>,
                               "none", <<GenRule>>),
     <<n_a, f_BUILD>> :> Build(<<Exclude(f_a_proto)>>, "none", <<>>),
     <<n_a, f_BUILD>> :> Build(<<>>, "other", <<>>),
     <<n_a, f_BUILD>> :> Malformed,
     <<n_a, f_BUILD_bazel>> :> Unreadable,
     (<<n_a, f_BUILD_bazel>> :> Build(<<>>, "none", <<>>)) @@
         (<<n_a, f_BUILD>> :> Build(<<Exclude(n_x)>>, "none", <<>>)),
     (<<n_a, f_BUILD_bazel>> :> Malformed) @@
         (<<n_a, f_BUILD>> :> Build(<<Exclude(n_x)>>, "none", <<>>))}

AXs ==
    {Nothing,
     (<<n_a, n_x>> :> Dir) @@ (<<n_a, n_x, f_c_go>> :> GoSrc(n_x, FALSE)),
     (<<n_a, n_x>> :> Dir) @@ (<<n_a, n_x, f_c_go>> :> GoSrc(n_x, FALSE)) @@
         (<<n_a, n_x, f_BUILD>> :> Build(<<Proto(m_legacy)>>, "none", <<>>)),
     (<<n_a, n_x>> :> Dir) @@ (<<n_a, n_x, f_a_proto>> :> ProtoSrc(n_x)) @@
         (<<n_a, n_x, f_BUILD>> :> Build(<<Proto(m_default)>>, "none", <<>>))}

TreesA ==
    {(<<n_a>> :> DirNode(listable)) @@ ASources @@ build @@ sub :
        listable \in BOOLEAN, build \in ABuilds, sub \in AXs}

ADefault ==
    (<<n_a>> :> Dir) @@ ASources @@
    (<<n_a, f_BUILD>> :> Build(<<Proto(m_disable)>>, "none", <<>>))

\* Directory b: sources, a build file, and a subdirectory testdata.
BSources ==
    (<<n_b, f_b_go>> :> GoSrc(n_b, FALSE)) @@
    (<<n_b, f_a_proto>> :> ProtoSrc(n_b)) @@
    (<<n_b, f_a_pb_go>> :> GoSrc(n_b, FALSE))

BBuilds ==
    {Nothing,
     <<n_b, f_BUILD>> :> Build(<<Exclude(n_testdata)>>, "none", <<>>)}

BTestdatas ==
    {Nothing,
     <<n_b, n_testdata>> :> Dir,
     (<<n_b, n_testdata>> :> Dir) @@ (<<n_b, n_testdata, f_a_go>> :> GoSrc(n_testdata, FALSE)),
     (<<n_b, n_testdata>> :> Dir) @@ (<<n_b, n_testdata, f_w_txt>> :> Static),
     (<<n_b, n_testdata>> :> Dir) @@ (<<n_b, n_testdata, f_BUILD>> :> Build(<<>>, "none", <<>>)),
     (<<n_b, n_testdata>> :> Dir) @@ (<<n_b, n_testdata, f_BUILD>> :> Malformed),
     (<<n_b, n_testdata>> :> DirNode(FALSE)) @@
         (<<n_b, n_testdata, f_BUILD>> :> Build(<<>>, "none", <<>>)),
     (<<n_b, n_testdata>> :> Dir) @@ (<<n_b, n_testdata, n_x>> :> Dir) @@
         (<<n_b, n_testdata, n_x, f_BUILD_bazel>> :> Build(<<>>, "none", <<>>)),
     (<<n_b, n_testdata>> :> Dir) @@ (<<n_b, n_testdata, n_x>> :> Dir) @@
         (<<n_b, n_testdata, n_x, f_a_go>> :> GoSrc(n_x, FALSE)),
     (<<n_b, n_testdata>> :> Dir) @@ (<<n_b, n_testdata, n_vendor>> :> Dir) @@
         (<<n_b, n_testdata, n_vendor, f_BUILD>> :> Build(<<>>, "none", <<>>)),
     (<<n_b, n_vendor>> :> Dir) @@ (<<n_b, n_vendor, f_a_go>> :> GoSrc(n_vendor, FALSE))}

TreesB ==
    {(<<n_b>> :> Dir) @@ BSources @@ build @@ sub : build \in BBuilds, sub \in BTestdatas}

BDefault == (<<n_b>> :> Dir) @@ BSources @@ (<<n_b, n_testdata>> :> Dir)

Trees ==
    {(<<>> :> Dir) @@ root @@ a @@ BDefault : root \in RootBuilds, a \in TreesA}
    \cup {(<<>> :> Dir) @@ root @@ ADefault @@ b : root \in RootBuilds, b \in TreesB}

\* The directories to update and the directory Walk starts from.
Requests ==
    {[c |-> Config(<<<<>>>>, <<>>, "external"), root |-> <<>>],
     [c |-> Config(<<<<n_b>>>>, <<>>, "external"), root |-> <<>>],
     [c |-> Config(<<<<n_a, n_x>>, <<n_b>>>>, <<>>, "external"), root |-> <<n_b>>],
     [c |-> Config(<<<<>>>>, <<>>, "vendor"), root |-> <<>>]}

\* Directories with sources of several packages, at the repository root or
\* in directory a, for the package builder.
PkgFileSets(d) ==
    {fa @@ fb @@ fc @@ fp @@ build :
        fa \in {Nothing,
                Append(d, f_a_go) :> GoSrc(n_a, FALSE),
                Append(d, f_a_go) :> GoSrc(n_b, TRUE),
                Append(d, f_a_go) :> GoSrc(n_documentation, FALSE),
                Append(d, f_a_go) :> GoSrc(<<>>, FALSE)},
        fb \in {Nothing,
                Append(d, f_b_go) :> GoSrc(n_b, FALSE),
                Append(d, f_b_go) :> GoSrc(n_main, FALSE)},
        fc \in {Nothing,
                Append(d, f_c_go) :> GoSrc(n_c, FALSE),
                Append(d, f_c_go) :> GoSrc(n_a, FALSE)},
        fp \in {Nothing,
                Append(d, f_a_proto) :> ProtoSrc(n_a),
                Append(d, f_a_proto) :> ProtoSrc(n_x),
                Append(d, f_a_proto) :> ProtoSrc(<<>>)},
        build \in {Nothing,
                   Append(d, f_BUILD) :> Build(<<Proto(m_legacy)>>, "none", <<>>)}}

PkgTrees ==
    {(<<>> :> Dir) @@ (<<f_w_txt>> :> Static) @@ files : files \in PkgFileSets(<<>>)}
    \cup {(<<>> :> Dir) @@ (<<n_a>> :> Dir) @@ (<<n_a, f_x_c>> :> Static) @@ files :
             files \in PkgFileSets(<<n_a>>)}

PkgRequests ==
    {[c |-> Config(<<<<>>>>, <<>>, "external"), root |-> <<>>],
     [c |-> Config(<<<<>>>>, <<n_x, n_a>>, "external"), root |-> <<>>]}

\* Directory a with a Go source of package a or b, with or without cgo,
\* with or without a second Go source of package a, and a build file whose
\* rules declare outputs of every kind (TestGenerated, TestGeneratedCgo).
GenOuts ==
    ListAttr(<<StrAttr(f_a_go), StrAttr(f_c_go), StrAttr(f_w_txt), StrAttr(f_x_c),
               StrAttr(f_y_s), StrAttr(f_z_S), OtherExpr, StrAttr(f_b_go)>>)

GenTrees ==
    {(<<>> :> Dir) @@ (<<n_a>> :> Dir) @@ (<<n_a, f_a_go>> :> GoSrc(name, cgo)) @@ second @@
     (<<n_a, f_BUILD>> :> Build(directives, "none",
                                <<Rule(NoAttr, GenOuts), Rule(StrAttr(f_gen_go), NoAttr)>>)) :
        name \in {n_a, n_b}, cgo \in BOOLEAN,
        second \in {Nothing, <<n_a, f_c_go>> :> GoSrc(n_a, FALSE)},
        directives \in {<<>>, <<Exclude(f_c_go)>>, <<Exclude(f_b_go)>>}}

InitWalk(tree, request) ==
    /\ fs = tree
    /\ cfg0 = request
    /\ c = request.c
    /\ stack = <<>>
    /\ calls = <<>>
    /\ entered = <<>>
    /\ log = <<>>
    /\ pc = "start"
    /\ run = 1
    /\ prevCalls = <<>>
    /\ prevLog = <<>>
    /\ changed = NoChange
    /\ visits = <<>>
    /\ generated = <<>>
    /\ rpos = [v |-> 1, r |-> 1]
    /\ fnCall = NoCall
    /\ fnResult = NoResult
    /\ IdleMerge
    /\ IdleRun
    /\ IdleCache

Init ==
    \/ \E tree \in Trees, request \in Requests : InitWalk(tree, request)
    \/ \E tree \in PkgTrees, request \in PkgRequests : InitWalk(tree, request)
    \/ \E tree \in GenTrees, request \in PkgRequests : InitWalk(tree, request)

Spec == Init /\ [][Next]_vars

TypeOK ==
    /\ pc \in {"start", "walking", "done"}
    /\ c.ProtoMode \in ProtoModes
    /\ run \in 1..MaxRuns

\* ------------------------------------------------------------- properties

IsUnder(rel, d) == rel = d \/ HasDirPrefix(rel, d)

\* The build file Walk loads in a directory, and its directives.
LoadedFile(tree, rel) ==
    LookForBuildFile(tree, rel, cfg0.c.ValidBuildFileNames, NilFile, FALSE).oldFile
LoadedDirectives(tree, rel) ==
    IF LoadedFile(tree, rel).isNil THEN <<>> ELSE ParseDirectives(LoadedFile(tree, rel))

\* Whether buildPackage was called by the visit that made the call.
Built(call) == ~call.frame.haveError /\ call.isUpdateDir

SourcesOf(pkg) == Range(pkg.Sources) \cup Range(pkg.ProtoSources)

\* C1: Walk traverses in post-order: the callback of a directory comes after
\* the callbacks of all directories below it, and the callbacks of one
\* subtree are consecutive, not interleaved with those of a sibling subtree.
C1_PostOrder ==
    /\ \A i, j \in DOMAIN calls :
          HasDirPrefix(calls[i].rel, calls[j].rel) => i < j
    /\ \A i, j, k \in DOMAIN calls :
          (i < k /\ k < j /\ IsUnder(calls[i].rel, calls[j].rel))
              => IsUnder(calls[k].rel, calls[j].rel)

C1_Witness ==
    /\ pc = "done"
    /\ \E i, j, k \in DOMAIN calls :
          /\ HasDirPrefix(calls[i].rel, calls[j].rel)
          /\ Len(calls[i].rel) = Len(calls[j].rel) + 2
          /\ ~IsUnder(calls[k].rel, calls[j].rel)
          /\ calls[k].rel # cfg0.root

\* C2: when Walk is done the callback has been invoked exactly once for
\* every directory visit was called on, whatever went wrong in it.
C2_CallbackOncePerEntered ==
    pc = "done" =>
        \A d \in Range(entered) :
            Cardinality({i \in DOMAIN calls : calls[i].rel = d}) = 1

\* C3: with the directives of one directory removed, the callback receives
\* the same Configuration as before for every directory that is neither that
\* directory nor below it.
C3_DirectivesStayBelow ==
    (pc = "done" /\ changed.kind = "strip") =>
        \A i \in DOMAIN calls, j \in DOMAIN prevCalls :
            (calls[i].rel = prevCalls[j].rel /\ ~IsUnder(calls[i].rel, changed.rel))
                => calls[i].c = prevCalls[j].c

\* The Configuration of a directory when each directory on the way from the
\* root of the walk derives its own from its parent's.
RECURSIVE ScopedConfig(_, _)
ScopedConfig(tree, rel) ==
    IF rel = cfg0.root THEN ProcessDirectives(cfg0.c, LoadedFile(tree, rel))
    ELSE ProcessDirectives(ScopedConfig(tree, SubSeq(rel, 1, Len(rel) - 1)),
                           LoadedFile(tree, rel))

\* Whether the directory or one above it, from the root of the walk down,
\* carries a proto directive with a valid mode.
ProtoDirectiveAbove(tree, rel) ==
    \E n \in Len(cfg0.root)..Len(rel) :
        LET ds == LoadedDirectives(tree, SubSeq(rel, 1, n))
        IN  \E k \in DOMAIN ds :
               ds[k].Key = "proto" /\ ProtoModeFromString(ds[k].Value) # "error"

\* C4: below a directory with a proto directive, the files of every
\* directory are classified and its Package is built in the mode of the
\* nearest build file above that sets one.
C4_ProtoModeScoped ==
    \A i \in DOMAIN calls :
        ProtoDirectiveAbove(fs, calls[i].rel) =>
            /\ calls[i].frame.classMode = ScopedConfig(fs, calls[i].rel).ProtoMode
            /\ Built(calls[i]) => calls[i].c.ProtoMode = ScopedConfig(fs, calls[i].rel).ProtoMode

\* C5: an entry named by an exclude directive of the build file loaded in a
\* directory is in no source list of the directory's Package, and when it is
\* a subdirectory neither it nor anything below it is visited or reported.
C5_ExcludedIgnored ==
    /\ \A i \in DOMAIN calls :
          \A n \in ExcludedByDirectives(LoadedDirectives(fs, calls[i].rel)) :
              n \notin SourcesOf(calls[i].pkg)
    /\ \A d \in Range(entered) \cup {calls[i].rel : i \in DOMAIN calls} :
          \A n \in (Len(cfg0.root) + 1)..Len(d) :
              d[n] \notin ExcludedByDirectives(LoadedDirectives(fs, SubSeq(d, 1, n - 1)))

C5_Witness ==
    /\ pc = "done"
    /\ \E i \in DOMAIN calls :
          LET ex == ExcludedByDirectives(LoadedDirectives(fs, calls[i].rel))
              on(n) == Append(calls[i].rel, n) \in DOMAIN fs
          IN  /\ ~calls[i].pkg.isNil
              /\ \E n \in ex : on(n) /\ ~IsDir(fs, calls[i].rel, n) /\ HasSuffix(n, ext_go)
              /\ \E n \in ex : on(n) /\ IsDir(fs, calls[i].rel, n)
              /\ \E n \in ex : n \in Range(RuleStrings(calls[i].oldFile.content.rules))

\* The package-name groups buildPackage forms in the directory of a call.
GroupsOf(call) ==
    GroupPkgFiles(call.c, fs, call.rel, call.frame.pkgFiles, call.frame.hasTestdata,
                  [packageMap |-> <<>>, cgo |-> FALSE, unknown |-> <<>>]).packageMap

BuildableOf(call) == {n \in DOMAIN GroupsOf(call) : isBuildable(GroupsOf(call)[n], call.c)}

\* The default name of a directory: its base name, at the repository root
\* the last segment of the prefix, "unnamed" for the empty prefix.
DefaultNameOf(call) ==
    IF call.rel # <<>> THEN call.rel[Len(call.rel)]
    ELSE IF call.c.GoPrefix = <<>> THEN n_unnamed
    ELSE call.c.GoPrefix[Len(call.c.GoPrefix)]

ConflictLogged(call) ==
    \E k \in DOMAIN log :
        /\ log[k].rel = call.rel
        /\ log[k].err.kind = "MultiplePackageError"
        /\ Range(log[k].err.Packages) = BuildableOf(call)

\* C6: the Package selected in a directory is none without a buildable
\* group, the only buildable group when there is one, the buildable group of
\* the default name when there are several, and none with a conflict report
\* when several are buildable and none has the default name.
C6_Selection ==
    \A i \in DOMAIN calls :
        Built(calls[i]) =>
            LET call == calls[i]
                buildable == BuildableOf(call)
            IN  /\ call.frame.pkgFiles = <<>> => call.pkg.isNil
                /\ buildable = {} => call.pkg.isNil
                /\ Cardinality(buildable) = 1 =>
                       ~call.pkg.isNil /\ call.pkg.Name \in buildable
                /\ (Cardinality(buildable) >= 2 /\ DefaultNameOf(call) \in buildable) =>
                       ~call.pkg.isNil /\ call.pkg.Name = DefaultNameOf(call)
                /\ (Cardinality(buildable) >= 2 /\ DefaultNameOf(call) \notin buildable) =>
                       call.pkg.isNil /\ ConflictLogged(call)
                /\ ~call.pkg.isNil =>
                       \A n \in SourcesOf(GroupsOf(call)[call.pkg.Name]) : n \in SourcesOf(call.pkg)

C6_Witness ==
    /\ pc = "done"
    /\ \E i \in DOMAIN calls :
          /\ Built(calls[i])
          /\ calls[i].rel = <<>>
          /\ calls[i].c.GoPrefix # <<>>
          /\ Cardinality(BuildableOf(calls[i])) >= 2
          /\ calls[i].pkg.Name = n_a
    /\ run > 1
    /\ \E j \in DOMAIN prevCalls :
          /\ Cardinality(BuildableOf(prevCalls[j])) = 1
          /\ ~prevCalls[j].pkg.isNil

\* The package names the source files of the directory of a call declare.
DeclaredNames(call) ==
    {n \in {(IF PathExt(f) = ext_go THEN goFileInfo(fs, call.rel, f)
             ELSE protoFileInfo(fs, call.rel, f)).packageName :
                f \in Range(call.frame.pkgFiles)} : n # <<>>}

\* C7, as claimed: two or more declared package names, none of them the
\* default name, give no Package and a conflict report.
C7_Claimed ==
    \A i \in DOMAIN calls :
        (/\ Built(calls[i])
         /\ Cardinality(DeclaredNames(calls[i])) >= 2
         /\ DefaultNameOf(calls[i]) \notin DeclaredNames(calls[i]))
            => /\ calls[i].pkg.isNil
               /\ \E k \in DOMAIN log : log[k].rel = calls[i].rel

\* C7, amended: two or more buildable groups, none of them of the default
\* name, give no Package and a conflict report naming those groups with one
\* first file each.
C7_Amended ==
    \A i \in DOMAIN calls :
        (/\ Built(calls[i])
         /\ Cardinality(BuildableOf(calls[i])) >= 2
         /\ DefaultNameOf(calls[i]) \notin BuildableOf(calls[i]))
            => /\ calls[i].pkg.isNil
               /\ \E k \in DOMAIN log :
                     /\ log[k].rel = calls[i].rel
                     /\ Range(log[k].err.Packages) = BuildableOf(calls[i])
                     /\ Len(log[k].err.Files) = Len(log[k].err.Packages)

C7_Witness ==
    /\ pc = "done"
    /\ \E i \in DOMAIN calls :
          /\ Built(calls[i])
          /\ Cardinality(BuildableOf(calls[i])) >= 2
          /\ DefaultNameOf(calls[i]) \notin BuildableOf(calls[i])
          /\ DefaultNameOf(calls[i]) \in DOMAIN GroupsOf(calls[i])

\* C8: a second run over the same directory contents prints the same
\* conflict reports: the same package names and first files in the same
\* order.
C8_ReportDeterministic ==
    (pc = "done" /\ run > 1 /\ changed.kind = "none") => log = prevLog

\* Whether visit was called on a directory at or below d that holds a build
\* file Walk loads or for which the callback received a Package.
HasBuildFileOrPackage(d) ==
    \E e \in Range(entered) :
        /\ IsUnder(e, d)
        /\ \/ ~LoadedFile(fs, e).isNil
           \/ \E k \in DOMAIN calls : calls[k].rel = e /\ ~calls[k].pkg.isNil

\* C9: the has-test-data flag of a Package is true exactly when its
\* directory has a subdirectory testdata that is not skipped and no directory
\* at or below testdata holds a build file or yields a Package.
C9_HasTestdata ==
    \A i \in DOMAIN calls :
        ~calls[i].pkg.isNil =>
            (calls[i].pkg.HasTestdata <=>
                /\ n_testdata \in Range(calls[i].frame.subdirs)
                /\ ~HasBuildFileOrPackage(Append(calls[i].rel, n_testdata)))

\* C10: in a directory classified in default proto mode the file X.pb.go of
\* every X.proto that no directive excludes is left out of the Package; when
\* X.proto is excluded by a directive, or the mode is legacy or disable,
\* X.pb.go is a source file like any other .go file.
C10_PbGo ==
    \A i \in DOMAIN calls :
        LET call == calls[i]
            files == ReadDir(fs, call.rel)
            byDirective == ExcludedByDirectives(LoadedDirectives(fs, call.rel))
        IN  \A k \in DOMAIN files :
               (HasSuffix(files[k], ext_proto) /\ ~IsDir(fs, call.rel, files[k])) =>
                   LET pbgo == SubSeq(files[k], 1, Len(files[k]) - Len(ext_proto)) \o ext_pb_go
                   IN  /\ (call.frame.classMode = "default" /\ files[k] \notin byDirective) =>
                              /\ pbgo \notin Range(call.frame.pkgFiles)
                              /\ pbgo \notin SourcesOf(call.pkg)
                       /\ (/\ files[k] \in byDirective \/ call.frame.classMode \in {"legacy", "disable"}
                           /\ pbgo \in Range(files)
                           /\ ~IsDir(fs, call.rel, pbgo)
                           /\ pbgo \notin byDirective) =>
                              /\ pbgo \in Range(call.frame.pkgFiles)
                              /\ (/\ ~call.pkg.isNil
                                  /\ goFileInfo(fs, call.rel, pbgo).packageName = call.pkg.Name)
                                     => pbgo \in Range(call.pkg.Sources)

C10_Witness ==
    /\ pc = "done"
    /\ \E i, j \in DOMAIN calls :
          /\ calls[i].frame.classMode = "default"
          /\ f_a_proto \in Range(calls[i].frame.pkgFiles)
          /\ Append(calls[i].rel, f_a_pb_go) \in DOMAIN fs
          /\ ~calls[i].pkg.isNil
          /\ calls[j].frame.classMode = "default"
          /\ f_a_proto \in ExcludedByDirectives(LoadedDirectives(fs, calls[j].rel))
          /\ f_a_pb_go \in Range(calls[j].pkg.Sources)

\* The recognized build files present in a directory, directories of that
\* name apart.
BuildFilesIn(tree, rel) ==
    {n \in Range(cfg0.c.ValidBuildFileNames) :
        Append(rel, n) \in DOMAIN tree /\ tree[Append(rel, n)].kind = "file"}

\* A directory with more than one recognized build file, or with one that
\* cannot be read or parsed.
BuildFileError(tree, rel) ==
    \/ Cardinality(BuildFilesIn(tree, rel)) > 1
    \/ \E n \in BuildFilesIn(tree, rel) :
          ~tree[Append(rel, n)].ok \/ ~tree[Append(rel, n)].content.parses

\* The subdirectories of a directory that Walk does not skip.
WalkedSubdirs(tree, rel) ==
    {Append(rel, n) : n \in Range(EntriesOfClass(cfg0.c, tree, rel, ReadDir(tree, rel),
                         ExcludedByDirectives(LoadedDirectives(tree, rel)), "subdir"))}

\* C11: the callback of a directory with a build-file error receives no
\* Package and no existing file; the subdirectories of that directory and
\* the other subdirectories of its parent are visited all the same.
C11_BuildFileErrors ==
    /\ \A i \in DOMAIN calls :
          BuildFileError(fs, calls[i].rel) =>
              calls[i].pkg.isNil /\ calls[i].oldFile.isNil
    /\ pc = "done" =>
          \A d \in Range(entered) :
              (BuildFileError(fs, d) /\ ReadDirOk(fs, d)) =>
                  /\ WalkedSubdirs(fs, d) \subseteq Range(entered)
                  /\ d # cfg0.root =>
                        WalkedSubdirs(fs, SubSeq(d, 1, Len(d) - 1)) \subseteq Range(entered)

\* The names declared as outputs in the build file of a call that are not
\* excluded and name no source or static file of the directory.
DeclaredOutputs(call) ==
    {n \in Range(RuleStrings(call.oldFile.content.rules)) :
        /\ n \notin call.frame.excluded
        /\ n \notin Range(call.frame.pkgFiles) \cup Range(call.frame.otherFiles)}

\* The names in the Package that are no file of the directory.
AddedFromBuildFile(call) ==
    SourcesOf(call.pkg) \ (Range(call.frame.pkgFiles) \cup Range(call.frame.otherFiles))

\* The cgo flag buildPackage hands to addFile for the files it adds to the
\* selected Package: whether some source file of the directory that was read
\* with a package name other than "documentation" carries the cgo marker,
\* whichever package it belongs to.
DirUsesCgo(call) ==
    \E k \in DOMAIN call.frame.pkgFiles :
        LET f == call.frame.pkgFiles[k]
        IN  /\ PathExt(f) = ext_go
            /\ goFileInfo(fs, call.rel, f).packageName \notin {<<>>, n_documentation}
            /\ goFileInfo(fs, call.rel, f).isCgo

FirstPos(seq, x) == CHOOSE i \in DOMAIN seq : seq[i] = x /\ \A j \in 1..(i - 1) : seq[j] # x

\* The names added from the build file follow the directory's own files, in
\* the order of their declaration.
AddedLastInOrder(call, list) ==
    \A i, j \in DOMAIN list :
        (i < j /\ list[i] \in AddedFromBuildFile(call)) =>
            /\ list[j] \in AddedFromBuildFile(call)
            /\ FirstPos(RuleStrings(call.oldFile.content.rules), list[i])
                   <= FirstPos(RuleStrings(call.oldFile.content.rules), list[j])

NilExpr == [t |-> "nil"]
PanicExpr == [t |-> "panic"]
LiteralExpr(token) == [t |-> "literal", Token |-> token]
StringExpr(value) == [t |-> "string", Value |-> value]
ListExpr(list) == [t |-> "list", List |-> list]
KeyValueExpr(key, value) == [t |-> "kv", Key |-> key, Value |-> value]
DictExpr(list) == [t |-> "dict", List |-> list]
CallExpr(x, list) == [t |-> "call", X |-> x, List |-> list]
BinaryExpr(x, op, y) == [t |-> "binary", X |-> x, Op |-> op, Y |-> y]

NotNil(e) == e.t # "nil"
HasValue(kv) == kv.Value.t # "nil"

k_default == "//conditions:default"
TazeImportsKey == "_taze_imports"

IsPanic(e) == e.t = "panic"

\* mapExprStrings, lines 168-241: the expression it returns, nil included,
\* or PanicExpr when log.Panicf is reached, here or in a recursive call: the
\* panic unwinds every call above it.
\* f maps each string to its replacement, "" to drop it.
RECURSIVE mapExprStrings(_, _)
mapExprStrings(e, f) ==
    CASE e.t = "string" ->
            LET str == f[e.Value]
            IN  IF str = "" THEN NilExpr ELSE StringExpr(str)
      [] e.t = "list" ->
            LET mapped == [i \in DOMAIN e.List |-> mapExprStrings(e.List[i], f)]
                list == SelectSeq(mapped, NotNil)
            IN  IF \E i \in DOMAIN mapped : IsPanic(mapped[i]) THEN PanicExpr
                ELSE IF Len(list) = 0 /\ Len(e.List) > 0 THEN NilExpr
                ELSE ListExpr(list)
      [] e.t = "dict" ->
            IF \E i \in DOMAIN e.List : e.List[i].t # "kv" THEN PanicExpr
            ELSE
            LET mapped == [i \in DOMAIN e.List |->
                              KeyValueExpr(e.List[i].Key, mapExprStrings(e.List[i].Value, f))]
                cases == SelectSeq(mapped, HasValue)
                isEmpty == \A i \in DOMAIN cases :
                               cases[i].Key.t = "string" /\ cases[i].Key.Value = k_default
            IN  IF \E i \in DOMAIN mapped : IsPanic(mapped[i].Value) THEN PanicExpr
                ELSE IF isEmpty THEN NilExpr
                ELSE DictExpr(cases)
      [] e.t = "call" ->
            IF e.X.t # "literal" \/ e.X.Token # "select" \/ Len(e.List) # 1
            THEN PanicExpr
            ELSE LET arg == mapExprStrings(e.List[1], f)
                 IN  IF IsPanic(arg) THEN PanicExpr
                     ELSE IF arg.t = "nil" THEN NilExpr
                     ELSE [e EXCEPT !.List = <<arg>>]
      [] e.t = "binary" ->
            LET x == mapExprStrings(e.X, f)
                y == mapExprStrings(e.Y, f)
            IN  IF IsPanic(x) \/ IsPanic(y) THEN PanicExpr
                ELSE IF x.t = "nil" THEN y
                ELSE IF y.t = "nil" THEN x
                ELSE [e EXCEPT !.X = x, !.Y = y]
      [] OTHER -> PanicExpr

\* mapExprStrings, lines 219-220: the copy of a select call shares the
\* argument slice of the original, so the assignment call.List[0] = arg
\* also lands in the expression that was passed in. This is the argument as
\* the call leaves it. The parts are visited in the order of the code, and
\* what comes after a part that panics is not visited.
RECURSIVE ArgAfter(_, _)
ArgAfter(e, f) ==
    CASE e.t = "list" ->
            [e EXCEPT !.List =
                [i \in DOMAIN e.List |->
                    IF \E j \in 1..(i - 1) : IsPanic(mapExprStrings(e.List[j], f))
                    THEN e.List[i] ELSE ArgAfter(e.List[i], f)]]
      [] e.t = "dict" ->
            [e EXCEPT !.List =
                [i \in DOMAIN e.List |->
                    IF \E j \in 1..i : e.List[j].t # "kv" THEN e.List[i]
                    ELSE IF \E j \in 1..(i - 1) :
                                IsPanic(mapExprStrings(e.List[j].Value, f))
                    THEN e.List[i]
                    ELSE [e.List[i] EXCEPT !.Value = ArgAfter(e.List[i].Value, f)]]]
      [] e.t = "call" ->
            IF e.X.t # "literal" \/ e.X.Token # "select" \/ Len(e.List) # 1
            THEN e
            ELSE LET arg == mapExprStrings(e.List[1], f)
                 IN  IF arg.t \in {"nil", "panic"}
                     THEN [e EXCEPT !.List = <<ArgAfter(e.List[1], f)>>]
                     ELSE [e EXCEPT !.List = <<arg>>]
      [] e.t = "binary" ->
            IF IsPanic(mapExprStrings(e.X, f)) THEN [e EXCEPT !.X = ArgAfter(e.X, f)]
            ELSE [e EXCEPT !.X = ArgAfter(e.X, f), !.Y = ArgAfter(e.Y, f)]
      [] OTHER -> e

\* ------------------------------------------------------ resolve: rules

\* A rule is a call whose arguments are the bindings name = value.
Attr(name, value) == BinaryExpr(LiteralExpr(name), "=", value)
GenRuleExpr(kind, attrs) == CallExpr(LiteralExpr(kind), attrs)

\* bf.Rule.Kind, AttrDefn and DelAttr.
RuleKind(e) == IF e.X.t = "literal" THEN e.X.Token ELSE ""
IsAttr(a, key) == a.t = "binary" /\ a.Op = "=" /\ a.X.t = "literal" /\ a.X.Token = key
AttrIndex(e, key) ==
    LET is == {i \in DOMAIN e.List : IsAttr(e.List[i], key)}
    IN  IF is = {} THEN 0 ELSE CHOOSE i \in is : \A j \in is : i <= j
DelAttr(e, key) ==
    LET Other(a) == ~IsAttr(a, key)
    IN  [e EXCEPT !.List = SelectSeq(e.List, Other)]

\* ResolveRule, lines 133-154: the rule with the imports attribute replaced
\* by deps, or without it when nothing is left. resolve maps an import to
\* the text of its label, "" when it does not resolve.
ResolveImports(e, resolve) ==
    LET i == AttrIndex(e, TazeImportsKey)
    IN  IF i = 0 THEN e
        ELSE LET deps == mapExprStrings(e.List[i].Y, resolve)
             IN  IF IsPanic(deps) THEN PanicExpr
                 ELSE IF deps.t = "nil" THEN DelAttr(e, TazeImportsKey)
                 ELSE [e EXCEPT !.List[i] = Attr("deps", deps)]

\* ResolveRule, lines 127-131: the rule kinds for which the switch assigns a
\* resolve function. The switch has only the default case, which returns.
KindsResolved == {}

\* The resolve function of a rule kind; no kind has one.
ResolveOf(kind) == <<>>

\* ResolveRule, lines 120-155.
ResolveRule(e, pkgRel, buildRel) ==
    IF e.t # "call" THEN e
    ELSE IF RuleKind(e) \notin KindsResolved THEN e
    ELSE ResolveImports(e, ResolveOf(RuleKind(e)))

\* -------------------------------------------------- resolve: resolveGo

seg_dot == <<".">>
seg_dotdot == <<".", ".">>

\* build.IsLocalImport: ".", "..", or a path that starts with "./" or "../".
IsLocalImport(imp) == imp # <<>> /\ imp[1] \in {seg_dot, seg_dotdot}

\* path.Clean of a relative path, segment by segment.
RECURSIVE CleanInto(_, _)
CleanInto(segs, out) ==
    IF segs = <<>> THEN out
    ELSE LET x == Head(segs)
         IN  IF x = <<>> \/ x = seg_dot THEN CleanInto(Tail(segs), out)
             ELSE IF x = seg_dotdot /\ out # <<>> /\ out[Len(out)] # seg_dotdot
             THEN CleanInto(Tail(segs), SubSeq(out, 1, Len(out) - 1))
             ELSE CleanInto(Tail(segs), Append(out, x))

Clean(segs) ==
    LET out == CleanInto(segs, <<>>)
    IN  IF out = <<>> THEN <<seg_dot>> ELSE out

\* path.Join of two elements: empty elements are ignored and the result is
\* cleaned; "" when both are empty.
Join(a, b) == IF a = <<>> /\ b = <<>> THEN <<>> ELSE Clean(a \o b)

\* NewResolver, lines 103-115: the external resolver is set in external
\* dependency mode only.
NewResolver(cfg) ==
    [c |-> cfg,
     external |-> IF cfg.DepMode = "external" THEN "nodeModuleResolver" ELSE "nil"]

OutsideError == [kind |-> "error", msg |-> "points outside of repository", imp |-> <<>>]

\* r.external.resolve(imp), line 257: a call through a nil interface value
\* panics; otherwise the answer is the external resolver's.
ExternalResolve(r, imp) ==
    IF r.external = "nil" THEN [kind |-> "panic", msg |-> "nil pointer dereference", imp |-> imp]
    ELSE [kind |-> "external", msg |-> "", imp |-> imp]

\* resolveGo, lines 246-259.
resolveGo(r, imp, pkgRel) ==
    IF IsLocalImport(imp)
    THEN LET cleanRel == Clean(Join(pkgRel, imp))
         IN  IF IsLocalImport(cleanRel) THEN OutsideError
             ELSE ExternalResolve(r, Join(r.c.GoPrefix, cleanRel))
    ELSE ExternalResolve(r, imp)

\* ------------------------------------------------- resolve: the actions

\* The first rule at or after a position of the loop over visits and their
\* rules (run, lines 131-135); past the last visit when there is none.
RECURSIVE RulePos(_, _)
RulePos(vs, pos) ==
    IF pos.v > Len(vs) THEN [v |-> Len(vs) + 1, r |-> 1]
    ELSE IF pos.r > Len(vs[pos.v].rules) THEN RulePos(vs, [v |-> pos.v + 1, r |-> 1])
    ELSE pos

ResolverDone == fnCall = NoCall /\ visits # <<>> /\ rpos.v > Len(visits)

\* run, lines 131-135: resolver.ResolveRule(r, v.pkgRel, v.buildRel) for the
\* next generated rule; the rule is changed in place.
ResolveNext ==
    /\ fnCall = NoCall
    /\ rpos.v <= Len(visits)
    /\ LET v == visits[rpos.v]
       IN  visits' = [visits EXCEPT ![rpos.v].rules[rpos.r] =
                         ResolveRule(v.rules[rpos.r], v.pkgRel, v.buildRel)]
    /\ rpos' = RulePos(visits, [v |-> rpos.v, r |-> rpos.r + 1])
    /\ UNCHANGED <<generated, fnCall, fnResult>>
    /\ UNCHANGED nonResolveVars

\* mapExprStrings(e, f) is called.
CallMapExprStrings ==
    /\ fnCall.fn = "mapExprStrings"
    /\ ~fnResult.done
    /\ fnResult' = [done |-> TRUE,
                    out |-> mapExprStrings(fnCall.e, fnCall.f),
                    after |-> ArgAfter(fnCall.e, fnCall.f)]
    /\ UNCHANGED <<visits, generated, rpos, fnCall>>
    /\ UNCHANGED nonResolveVars

\* NewResolver(c, l).resolveGo(imp, pkgRel) is called.
CallResolveGo ==
    /\ fnCall.fn = "resolveGo"
    /\ ~fnResult.done
    /\ fnResult' = [done |-> TRUE,
                    out |-> resolveGo(NewResolver(fnCall.c), fnCall.imp, fnCall.pkgRel)]
    /\ UNCHANGED <<visits, generated, rpos, fnCall>>
    /\ UNCHANGED nonResolveVars

NextResolve == ResolveNext \/ CallMapExprStrings \/ CallResolveGo

\* -------------------------------------------------- resolve: the inputs

Imports == {"i1", "i2", "i3"}

\* The text of the label an import resolves to.
LabelText(imp) ==
    CASE imp = "i1" -> "//lib:i1"
      [] imp = "i2" -> "@repo//:i2"
      [] imp = "i3" -> ":i3"

\* The resolve functions: each resolves some of the imports.
ResolveFns == {[imp \in Imports |-> IF imp \in R THEN LabelText(imp) ELSE ""] : R \in SUBSET Imports}

Select(dict) == CallExpr(LiteralExpr("select"), <<dict>>)
Strs(seq) == ListExpr([i \in DOMAIN seq |-> StringExpr(seq[i])])
PlatformDict(linux, darwin, default) ==
    DictExpr(<<KeyValueExpr(StringExpr("linux"), Strs(linux)),
               KeyValueExpr(StringExpr("darwin"), Strs(darwin)),
               KeyValueExpr(StringExpr(k_default), Strs(default))>>)

\* Import expressions of every shape: a string, a list, a select over a
\* platform dict, and concatenations of these.
ImportExprs ==
    {StringExpr("i1"),
     Strs(<<>>),
     Strs(<<"i1", "i2", "i3">>),
     Strs(<<"i3", "i1">>),
     Select(PlatformDict(<<"i1">>, <<"i2", "i3">>, <<>>)),
     Select(PlatformDict(<<"i2">>, <<>>, <<"i1">>)),
     Select(PlatformDict(<<"i2">>, <<"i3">>, <<"i1">>)),
     BinaryExpr(Strs(<<"i1", "i2">>), "+", Select(PlatformDict(<<"i3">>, <<"i2">>, <<>>))),
     BinaryExpr(Strs(<<"i2">>), "+", Select(PlatformDict(<<"i1", "i3">>, <<"i1">>, <<"i3">>))),
     BinaryExpr(Strs(<<"i3">>), "+",
                BinaryExpr(Strs(<<"i1">>), "+", Select(PlatformDict(<<"i2">>, <<"i3">>, <<>>))))}

RuleKinds == {"go_library", "go_test", "ts_library"}

VisitRecord(pkgRel, rules) == [pkgRel |-> pkgRel, buildRel |-> pkgRel, rules |-> rules]

\* The visit records after generation: rules with a name, with or without
\* the raw-imports attribute, and statements that are no rules.
GeneratedVisits ==
    {<<VisitRecord(<<>>, <<GenRuleExpr(kind, <<Attr("name", StringExpr("lib")),
                                              Attr(TazeImportsKey, e)>>)>>)>> :
        kind \in RuleKinds, e \in ImportExprs}
    \cup {<<VisitRecord(<<n_a>>, <<>>),
            VisitRecord(<<n_b>>, <<GenRuleExpr(kind, <<Attr("name", StringExpr("lib"))>>),
                                   StringExpr("doc"),
                                   GenRuleExpr("go_test", <<Attr(TazeImportsKey, e),
                                                            Attr("name", StringExpr("t"))>>)>>)>> :
            kind \in RuleKinds, e \in {Strs(<<"i1">>), Strs(<<>>)}}

\* Relative imports, with the package paths they are written in.
RelImports ==
    {<<seg_dot>>, <<seg_dotdot>>, <<seg_dot, n_x>>, <<seg_dotdot, n_x>>,
     <<seg_dotdot, seg_dotdot>>, <<seg_dotdot, seg_dotdot, n_a>>,
     <<seg_dot, n_x, seg_dotdot, seg_dotdot>>, <<seg_dot, seg_dotdot, n_b, seg_dot>>,
     <<n_x, n_a>>, <<n_x, seg_dotdot, seg_dotdot>>}
PkgRels == {<<>>, <<n_a>>, <<n_a, n_b>>}

ResolverConfigs ==
    {Config(<<<<>>>>, prefix, mode) : prefix \in {<<>>, <<n_x, n_a>>},
                                      mode \in {"external", "vendor"}}

MapCalls == {[fn |-> "mapExprStrings", e |-> e, f |-> f] : e \in ImportExprs, f \in ResolveFns}
GoCalls ==
    {[fn |-> "resolveGo", c |-> cfg, imp |-> imp, pkgRel |-> pkgRel] :
        cfg \in ResolverConfigs, imp \in RelImports, pkgRel \in PkgRels}

\* Walk is not running: its variables hold the state before a walk of an
\* empty repository.
IdleWalk ==
    /\ fs = (<<>> :> Dir)
    /\ cfg0 = [c |-> Config(<<<<>>>>, <<>>, "external"), root |-> <<>>]
    /\ c = Config(<<<<>>>>, <<>>, "external")
    /\ stack = <<>>
    /\ calls = <<>>
    /\ entered = <<>>
    /\ log = <<>>
    /\ pc = "start"
    /\ run = 1
    /\ prevCalls = <<>>
    /\ prevLog = <<>>
    /\ changed = NoChange

InitResolve ==
    /\ IdleWalk
    /\ IdleMerge
    /\ IdleRun
    /\ IdleCache
    /\ \/ /\ visits \in GeneratedVisits
          /\ fnCall = NoCall
       \/ /\ visits = <<>>
          /\ fnCall \in MapCalls \cup GoCalls
    /\ generated = visits
    /\ rpos = RulePos(visits, [v |-> 1, r |-> 1])
    /\ fnResult = NoResult

SpecResolve == InitResolve /\ [][NextResolve]_vars

\* ------------------------------------------------ resolve: properties

RulesOf(vs) == {vs[v].rules[r] : <<v, r>> \in {x \in (DOMAIN vs) \X (1..3) : x[2] <= Len(vs[x[1]].rules)}}

\* C13: after the resolver pass no generated rule carries the raw-imports
\* attribute.
C13_NoRawImports ==
    ResolverDone =>
        \A e \in RulesOf(visits) : e.t = "call" => AttrIndex(e, TazeImportsKey) = 0

\* The strings of an expression in order, each with the platform key it
\* stands under ("" outside a dict).
RECURSIVE Leaves(_, _)
Leaves(e, key) ==
    CASE e.t = "string" -> <<[key |-> key, v |-> e.Value]>>
      [] e.t = "list" ->
            IF e.List = <<>> THEN <<>>
            ELSE Leaves(Head(e.List), key) \o Leaves(ListExpr(Tail(e.List)), key)
      [] e.t = "dict" ->
            IF e.List = <<>> THEN <<>>
            ELSE Leaves(Head(e.List).Value, Head(e.List).Key.Value)
                     \o Leaves(DictExpr(Tail(e.List)), key)
      [] e.t = "call" -> Leaves(e.List[1], key)
      [] e.t = "binary" -> Leaves(e.X, key) \o Leaves(e.Y, key)
      [] OTHER -> <<>>

\* The leaves that resolve, each replaced by its label.
ResolvedLeaves(e, f) ==
    LET Resolves(l) == f[l.v] # ""
        kept == SelectSeq(Leaves(e, ""), Resolves)
    IN  [i \in DOMAIN kept |-> [key |-> kept[i].key, v |-> f[kept[i].v]]]

\* C14: the expression mapExprStrings returns holds the label of every
\* import that resolved, in the original order and under the original
\* platform key, and nothing else.
C14_OnlyFailedDropped ==
    (fnCall.fn = "mapExprStrings" /\ fnResult.done) =>
        Leaves(fnResult.out, "") = ResolvedLeaves(fnCall.e, fnCall.f)

\* Whether a path, followed segment by segment from a directory depth levels
\* below the repository root, steps above the root.
RECURSIVE Escapes(_, _)
Escapes(segs, depth) ==
    IF segs = <<>> THEN FALSE
    ELSE LET x == Head(segs)
         IN  IF x = <<>> \/ x = seg_dot THEN Escapes(Tail(segs), depth)
             ELSE IF x = seg_dotdot THEN depth = 0 \/ Escapes(Tail(segs), depth - 1)
             ELSE Escapes(Tail(segs), depth + 1)

\* C15: resolveGo answers a relative import with the error "points outside
\* of repository" exactly when the import leaves the repository root.
C15_OutsideExactly ==
    (fnCall.fn = "resolveGo" /\ fnResult.done /\ IsLocalImport(fnCall.imp)) =>
        (fnResult.out = OutsideError <=> Escapes(fnCall.imp, Len(fnCall.pkgRel)))

\* --------------------------------------------------------------- Labeler

n_sub == <<"s", "u", "b">>
n_deep == <<"d", "e", "e", "p">>
n_repo == <<"r", "e", "p", "o">>
n_root == <<"r", "o", "o", "t">>
n_sub_test == <<"s", "u", "b", "_", "t", "e", "s", "t">>
n_sub_cmd == <<"s", "u", "b", "_", "c", "m", "d">>
DefaultLibName == <<"g", "o", "_", "d", "e", "f", "a", "u", "l", "t", "_", "l", "i", "b", "r", "a", "r", "y">>
DefaultTestName == <<"g", "o", "_", "d", "e", "f", "a", "u", "l", "t", "_", "t", "e", "s", "t">>
DefaultXTestName == <<"g", "o", "_", "d", "e", "f", "a", "u", "l", "t", "_", "x", "t", "e", "s", "t">>
suffix_cmd == <<"_", "c", "m", "d">>
suffix_test == <<"_", "t", "e", "s", "t">>
suffix_xtest == <<"_", "x", "t", "e", "s", "t">>

\* A slash-separated path as one string.
RECURSIVE JoinSlash(_)
JoinSlash(rel) ==
    IF rel = <<>> THEN <<>>
    ELSE IF Len(rel) = 1 THEN rel[1]
    ELSE rel[1] \o <<"/">> \o JoinSlash(Tail(rel))

Label(repo, pkg, name) == [Repo |-> repo, Pkg |-> pkg, Name |-> name, Relative |-> FALSE]

\* Label.String: ":name" when relative, "//pkg" when the name is the last
\* segment of the package, "//pkg:name" otherwise, after "@repo" if any.
LabelString(l) ==
    LET repo == IF l.Repo = <<>> THEN <<>> ELSE <<"@">> \o l.Repo
    IN  IF l.Relative THEN <<":">> \o l.Name
        ELSE IF l.Pkg # <<>> /\ l.Pkg[Len(l.Pkg)] = l.Name
        THEN repo \o <<"/", "/">> \o JoinSlash(l.Pkg)
        ELSE repo \o <<"/", "/">> \o JoinSlash(l.Pkg) \o <<":">> \o l.Name

\* Mutant of relBaseName: no fallback at the repository root.
relBaseNameNoFallback(cfg, rel) ==
    IF rel # <<>> THEN rel[Len(rel)] ELSE <<".">>

\* The name derived from a path: its last segment, at the repository root
\* the last segment of the prefix, "root" without a prefix.
relBaseName(cfg, rel) ==
    IF rel # <<>> THEN rel[Len(rel)]
    ELSE IF cfg.GoPrefix # <<>> THEN cfg.GoPrefix[Len(cfg.GoPrefix)]
    ELSE n_root

\* The name of a path in flat mode: the path itself, the derived name at the
\* repository root.
flatName(cfg, rel) == IF rel = <<>> THEN relBaseName(cfg, rel) ELSE JoinSlash(rel)

LibraryLabel(cfg, rel) ==
    IF cfg.StructureMode = "hierarchical" THEN Label(<<>>, rel, DefaultLibName)
    ELSE Label(<<>>, <<>>, flatName(cfg, rel))

BinaryLabel(cfg, rel) ==
    IF cfg.StructureMode = "hierarchical" THEN Label(<<>>, rel, relBaseName(cfg, rel))
    ELSE Label(<<>>, <<>>, flatName(cfg, rel) \o suffix_cmd)

TestLabel(cfg, rel, isXTest) ==
    IF cfg.StructureMode = "hierarchical"
    THEN Label(<<>>, rel, IF isXTest THEN DefaultXTestName ELSE DefaultTestName)
    ELSE Label(<<>>, <<>>, flatName(cfg, rel) \o (IF isXTest THEN suffix_xtest ELSE suffix_test))

TargetKinds == {"library", "binary", "test", "xtest"}

\* The label of each target kind of a directory.
LabelsOf(cfg, rel) ==
    [kind \in TargetKinds |->
        CASE kind = "library" -> LibraryLabel(cfg, rel)
          [] kind = "binary" -> BinaryLabel(cfg, rel)
          [] kind = "test" -> TestLabel(cfg, rel, FALSE)
          [] kind = "xtest" -> TestLabel(cfg, rel, TRUE)]

\* NewLabeler(c) is asked for the labels of every target kind of some
\* directories.
CallLabeler ==
    /\ fnCall.fn = "Labeler"
    /\ ~fnResult.done
    /\ fnResult' = [done |-> TRUE,
                    out |-> [i \in DOMAIN fnCall.rels |-> LabelsOf(fnCall.c, fnCall.rels[i])]]
    /\ UNCHANGED <<visits, generated, rpos, fnCall>>
    /\ UNCHANGED nonResolveVars

NextLabel == CallLabeler

LabelerConfig(mode, prefix) == [StructureMode |-> mode, GoPrefix |-> prefix]

LabelRels ==
    {<<>>, <<n_sub>>, <<n_sub, n_deep>>, <<n_sub_test>>, <<n_sub_cmd>>, <<n_root>>, <<n_repo>>}

LabelCalls ==
    {[fn |-> "Labeler", c |-> LabelerConfig(mode, prefix), rels |-> <<r1, r2>>] :
        mode \in {"hierarchical", "flat"}, prefix \in {<<>>, <<n_x, n_repo>>},
        r1 \in LabelRels, r2 \in LabelRels}

InitLabel ==
    /\ IdleWalk
    /\ IdleMerge
    /\ IdleRun
    /\ IdleCache
    /\ visits = <<>>
    /\ generated = <<>>
    /\ rpos = [v |-> 1, r |-> 1]
    /\ fnCall \in LabelCalls
    /\ fnResult = NoResult

SpecLabel == InitLabel /\ [][NextLabel]_vars

\* The cases of TestLabelerGo: the label strings wanted for a path and a
\* mode, with an empty prefix.
TestLabelerGo ==
    {[rel |-> <<>>, mode |-> "hierarchical",
      want |-> [library |-> <<"/", "/", ":", "g", "o", "_", "d", "e", "f", "a", "u", "l", "t", "_", "l", "i", "b", "r", "a", "r", "y">>,
                binary |-> <<"/", "/", ":", "r", "o", "o", "t">>,
                test |-> <<"/", "/", ":", "g", "o", "_", "d", "e", "f", "a", "u", "l", "t", "_", "t", "e", "s", "t">>,
                xtest |-> <<"/", "/", ":", "g", "o", "_", "d", "e", "f", "a", "u", "l", "t", "_", "x", "t", "e", "s", "t">>]],
     [rel |-> <<n_sub>>, mode |-> "hierarchical",
      want |-> [library |-> <<"/", "/", "s", "u", "b", ":", "g", "o", "_", "d", "e", "f", "a", "u", "l", "t", "_", "l", "i", "b", "r", "a", "r", "y">>,
                binary |-> <<"/", "/", "s", "u", "b">>,
                test |-> <<"/", "/", "s", "u", "b", ":", "g", "o", "_", "d", "e", "f", "a", "u", "l", "t", "_", "t", "e", "s", "t">>,
                xtest |-> <<"/", "/", "s", "u", "b", ":", "g", "o", "_", "d", "e", "f", "a", "u", "l", "t", "_", "x", "t", "e", "s", "t">>]],
     [rel |-> <<>>, mode |-> "flat",
      want |-> [library |-> <<"/", "/", ":", "r", "o", "o", "t">>,
                binary |-> <<"/", "/", ":", "r", "o", "o", "t", "_", "c", "m", "d">>,
                test |-> <<"/", "/", ":", "r", "o", "o", "t", "_", "t", "e", "s", "t">>,
                xtest |-> <<"/", "/", ":", "r", "o", "o", "t", "_", "x", "t", "e", "s", "t">>]],
     [rel |-> <<n_sub>>, mode |-> "flat",
      want |-> [library |-> <<"/", "/", ":", "s", "u", "b">>,
                binary |-> <<"/", "/", ":", "s", "u", "b", "_", "c", "m", "d">>,
                test |-> <<"/", "/", ":", "s", "u", "b", "_", "t", "e", "s", "t">>,
                xtest |-> <<"/", "/", ":", "s", "u", "b", "_", "x", "t", "e", "s", "t">>]],
     [rel |-> <<n_sub, n_deep>>, mode |-> "flat",
      want |-> [library |-> <<"/", "/", ":", "s", "u", "b", "/", "d", "e", "e", "p">>,
                binary |-> <<"/", "/", ":", "s", "u", "b", "/", "d", "e", "e", "p", "_", "c", "m", "d">>,
                test |-> <<"/", "/", ":", "s", "u", "b", "/", "d", "e", "e", "p", "_", "t", "e", "s", "t">>,
                xtest |-> <<"/", "/", ":", "s", "u", "b", "/", "d", "e", "e", "p", "_", "x", "t", "e", "s", "t">>]]}

\* The name the convention derives from a path: the path, at the repository
\* root the last segment of the prefix, "root" for the empty prefix.
PathName(cfg, rel) ==
    IF rel # <<>> THEN JoinSlash(rel)
    ELSE IF cfg.GoPrefix = <<>> THEN n_root
    ELSE cfg.GoPrefix[Len(cfg.GoPrefix)]

LastName(cfg, rel) == IF rel # <<>> THEN rel[Len(rel)] ELSE PathName(cfg, rel)

\* C16: for every path and both modes the Labeler returns a label for each
\* target kind by the convention: in hierarchical mode the package is the
\* path and the names are fixed, the binary named after the last segment; in
\* flat mode the package is empty and the names are the path with the
\* suffix of the kind; at the root the name falls back to the prefix. The
\* labels print as TestLabelerGo wants.
C16_Convention ==
    (fnCall.fn = "Labeler" /\ fnResult.done) =>
        \A i \in DOMAIN fnCall.rels :
            LET rel == fnCall.rels[i]
                cfg == fnCall.c
                out == fnResult.out[i]
            IN  /\ DOMAIN out = TargetKinds
                /\ cfg.StructureMode = "hierarchical" =>
                      /\ \A k \in TargetKinds : out[k].Pkg = rel /\ out[k].Repo = <<>>
                      /\ out["library"].Name = DefaultLibName
                      /\ out["test"].Name = DefaultTestName
                      /\ out["xtest"].Name = DefaultXTestName
                      /\ out["binary"].Name = LastName(cfg, rel)
                /\ cfg.StructureMode = "flat" =>
                      /\ \A k \in TargetKinds : out[k].Pkg = <<>> /\ out[k].Repo = <<>>
                      /\ out["library"].Name = PathName(cfg, rel)
                      /\ out["binary"].Name = PathName(cfg, rel) \o suffix_cmd
                      /\ out["test"].Name = PathName(cfg, rel) \o suffix_test
                      /\ out["xtest"].Name = PathName(cfg, rel) \o suffix_xtest
                /\ \A tc \in TestLabelerGo :
                      (tc.rel = rel /\ tc.mode = cfg.StructureMode /\ cfg.GoPrefix = <<>>) =>
                          \A k \in TargetKinds : LabelString(out[k]) = tc.want[k]

C16_Witness ==
    /\ fnCall.fn = "Labeler"
    /\ fnResult.done
    /\ fnCall.c.StructureMode = "flat"
    /\ fnCall.c.GoPrefix # <<>>
    /\ fnCall.rels = <<<<>>, <<n_sub, n_deep>>>>
    /\ fnResult.out[1]["binary"].Name = n_repo \o suffix_cmd
    /\ LabelString(fnResult.out[2]["xtest"]) = <<"/", "/", ":", "s", "u", "b", "/", "d", "e", "e", "p", "_", "x", "t", "e", "s", "t">>

\* C17: in flat mode two targets have the same label only if they have the
\* same path and the same kind.
C17_NoCollision ==
    (fnCall.fn = "Labeler" /\ fnResult.done /\ fnCall.c.StructureMode = "flat") =>
        \A i, j \in DOMAIN fnCall.rels, k1, k2 \in TargetKinds :
            fnResult.out[i][k1] = fnResult.out[j][k2] =>
                fnCall.rels[i] = fnCall.rels[j] /\ k1 = k2


\* ------------------------------------------------------------------ merge

\* A build file as the merger sees it: whether it carries the top-level
\* "# gazelle:ignore" comment, and its rules in order.  Beside the rules the
\* file records what the passes of mergeAndEmit other than the merge act on:
\* loads, the rule kinds it loads from the Go rules' definitions;
\* legacyProto, whether it loads go_proto_library from go_proto_library.bzl;
\* minor, whether it holds usage of an older form that merger.FixFileMinor
\* rewrites; and formatted, whether it is laid out as bf.Rewrite lays it out.
\* A file built from generated rules (run, lines 141-144) has statements for
\* the rules only.
BuildFile(ignore, rules) ==
    [isNil |-> FALSE, ignore |-> ignore, rules |-> rules,
     loads |-> {}, legacyProto |-> FALSE, minor |-> FALSE, formatted |-> FALSE]

\* A rule: kind, name, whether a "# keep" comment precedes it, and two
\* attributes, each with whether a "# keep" comment follows it: deps, a list
\* of labels, and cgo, a flag ("" when the rule does not set it).
BuildRule(kind, name, keep, deps, depsKeep, cgo, cgoKeep) ==
    [kind |-> kind, name |-> name, keep |-> keep,
     deps |-> deps, depsKeep |-> depsKeep, cgo |-> cgo, cgoKeep |-> cgoKeep]

k_go_library == "go_library"
k_go_test == "go_test"
k_cgo_library == "cgo_library"
k_go_proto_library == "go_proto_library"
k_filegroup == "filegroup"
CgoDefaultLibName == "cgo_default_library"
DefaultProtosName == "go_default_library_protos"

\* The rule kinds that a build file loads from the Go rules' definitions.
GoRuleKinds == {k_go_library, k_go_test, k_cgo_library}

RuleNames(rules) == {rules[i].name : i \in DOMAIN rules}
RuleNamed(rules, name) == rules[CHOOSE i \in DOMAIN rules : rules[i].name = name /\ \A j \in 1..(i - 1) : rules[j].name # name]

\* A list merge that appends the generated entries to the existing ones.
UnionListAppending(old, new) == old \o new

\* Set union of two lists: the existing entries in their order, then the
\* entries of the other list that are not among them.
UnionList(old, new) == old \o SelectSeq(new, LAMBDA x : x \notin Range(old))

\* merger.FixFileMinor: the fixes that are applied in every mode.  Neither
\* spec.md nor README.rst says which usage they rewrite; the file records
\* only whether it holds any, and the fixed file holds none.  The rules'
\* kinds, names, pins, deps and cgo attributes are left as they are: the
\* squash of FixFile is the only structural transformation (spec, 4.6(5)).
FixFileMinor(cfg, f) == [f EXCEPT !.minor = FALSE]

\* Squash cgo libraries (README.rst:275-302): the cgo_library named
\* cgo_default_library is removed and its attributes are merged with the
\* go_library named go_default_library; without such a go_library it
\* becomes one.  Pinned rules and attributes are never altered or removed
\* (spec, 4.6(2)): a pinned cgo_library is not squashed, nothing is squashed
\* into a pinned go_library, and a pinned attribute keeps its value.
squashCgoLibrary(f) ==
    LET isCgo(r) == r.kind = k_cgo_library /\ r.name = CgoDefaultLibName /\ ~r.keep
        isLib(r) == r.kind = k_go_library /\ r.name = "go_default_library"
    IN  IF \/ ~\E i \in DOMAIN f.rules : isCgo(f.rules[i])
           \/ \E i \in DOMAIN f.rules : isLib(f.rules[i]) /\ f.rules[i].keep
        THEN f
        ELSE LET ci == CHOOSE i \in DOMAIN f.rules : isCgo(f.rules[i])
                 cg == f.rules[ci]
                 squashed == [i \in DOMAIN f.rules |->
                                 IF isLib(f.rules[i])
                                 THEN [f.rules[i] EXCEPT
                                          !.deps = IF f.rules[i].depsKeep THEN @
                                                   ELSE UnionList(@, cg.deps),
                                          !.cgo = IF f.rules[i].cgoKeep THEN @ ELSE "True"]
                                 ELSE f.rules[i]]
                 created == [f.rules EXCEPT ![ci] =
                                [cg EXCEPT !.kind = k_go_library,
                                           !.name = "go_default_library",
                                           !.cgo = IF cg.cgoKeep THEN @ ELSE "True"]]
             IN  [f EXCEPT !.rules =
                     IF \E i \in DOMAIN f.rules : isLib(f.rules[i])
                     THEN SubSeq(squashed, 1, ci - 1) \o SubSeq(squashed, ci + 1, Len(squashed))
                     ELSE created]

\* Remove legacy protos (README.rst:304-334): in default proto mode the
\* go_proto_library rules of a file that loads them from
\* go_proto_library.bzl and the filegroup named go_default_library_protos
\* are deleted, and nothing of them is merged.  Pinned rules stay, and the
\* load stays with the go_proto_library rules that stay.
removeLegacyProto(cfg, f) ==
    IF cfg.ProtoMode # "default" \/ ~f.legacyProto THEN f
    ELSE LET isLegacy(r) ==
                 /\ ~r.keep
                 /\ \/ r.kind = k_go_proto_library
                    \/ r.kind = k_filegroup /\ r.name = DefaultProtosName
             rest == SelectSeq(f.rules, LAMBDA r : ~isLegacy(r))
         IN  [f EXCEPT !.rules = rest,
                       !.legacyProto = \E i \in DOMAIN rest : rest[i].kind = k_go_proto_library]

\* merger.FixFile: the transformations of the fix command.
FixFile(cfg, f) == removeLegacyProto(cfg, squashCgoLibrary(f))

\* merger.FixImports: the file loads from the Go rules' definitions the
\* kinds its rules use, no more and no less.
FixImports(f) ==
    [f EXCEPT !.loads = {f.rules[i].kind : i \in DOMAIN f.rules} \cap GoRuleKinds]

\* bf.Rewrite with the default rewrites: the file is laid out as buildifier
\* formats it.
Rewrite(f) == [f EXCEPT !.formatted = TRUE]

\* Merge of a generated rule into the same-named existing rule: a list
\* attribute becomes the union that keeps the existing entries, a scalar is
\* overwritten, and neither changes when it is pinned.
mergeRule(gen, old) ==
    [old EXCEPT !.deps = IF old.depsKeep THEN @ ELSE UnionList(@, gen.deps),
                !.cgo = IF old.cgoKeep THEN @ ELSE gen.cgo]

\* A rule is pinned by a "# keep" comment on it or on one of its attributes.
HasKeep(r) == r.keep \/ r.depsKeep \/ r.cgoKeep

\* merger.MergeWithExisting: nil for a file with the ignore directive;
\* otherwise the existing file with its rules merged: pinned rules stay,
\* same-named rules are merged, empty candidates without a pin are deleted
\* and generated rules without a counterpart are appended.
MergeWithExisting(genFile, oldFile, empty) ==
    IF oldFile.ignore THEN NoBuildFile
    ELSE LET mergedOld == [i \in DOMAIN oldFile.rules |->
                              LET r == oldFile.rules[i]
                              IN  IF r.keep THEN r
                                  ELSE IF r.name \in RuleNames(genFile.rules)
                                  THEN mergeRule(RuleNamed(genFile.rules, r.name), r)
                                  ELSE r]
             kept == SelectSeq(mergedOld, LAMBDA r : HasKeep(r) \/ r.name \notin RuleNames(empty))
             new == SelectSeq(genFile.rules, LAMBDA g : g.name \notin RuleNames(oldFile.rules))
         IN  [oldFile EXCEPT !.rules = kept \o new]

\* sort.Sort on a list of labels, by insertion.
RECURSIVE InsertLabel(_, _)
InsertLabel(sorted, x) ==
    IF sorted = <<>> THEN <<x>>
    ELSE IF StrLess(x, sorted[1]) THEN <<x>> \o sorted
    ELSE <<sorted[1]>> \o InsertLabel(Tail(sorted), x)

RECURSIVE SortList(_)
SortList(list) ==
    IF list = <<>> THEN <<>>
    ELSE InsertLabel(SortList(SubSeq(list, 1, Len(list) - 1)), list[Len(list)])

\* rules.SortLabels: the dependency list of every rule in lexicographic order.
SortLabels(f) ==
    [f EXCEPT !.rules = [i \in DOMAIN f.rules |-> [f.rules[i] EXCEPT !.deps = SortList(@)]]]

\* What mergeAndEmit hands to emit: nothing, or a file.
NoEmit(old, m) == [oldFile |-> old, mergedFile |-> m, emit |-> FALSE, file |-> NoBuildFile]
Emit(old, m, file) == [oldFile |-> old, mergedFile |-> m, emit |-> TRUE, file |-> file]

\* mergeAndEmit that emits the generated file for an ignored existing file.
mergeAndEmitIgnored(cfg, genFile, oldFile, empty) ==
    IF oldFile.isNil
    THEN Emit(oldFile, NoBuildFile, Rewrite(FixImports(SortLabels(genFile))))
    ELSE LET minorFile == FixFileMinor(cfg, oldFile)
             fixedFile == IF cfg.ShouldFix THEN FixFile(cfg, minorFile) ELSE minorFile
             mergedFile == MergeWithExisting(genFile, fixedFile, empty)
         IN  IF mergedFile.isNil
             THEN Emit(fixedFile, mergedFile, Rewrite(FixImports(SortLabels(genFile))))
             ELSE Emit(fixedFile, mergedFile, Rewrite(FixImports(SortLabels(mergedFile))))

\* mergeAndEmit, lines 158-195: without an existing file the generated file
\* is sorted, given its loads, formatted and emitted; otherwise the existing
\* file gets the minor fixes and, when ShouldFix is set, the fixes of the fix
\* command, is merged, and the merged file is sorted, given its loads,
\* formatted and emitted, unless the merger returned nil.
mergeAndEmit(cfg, genFile, oldFile, empty) ==
    IF oldFile.isNil
    THEN Emit(oldFile, NoBuildFile, Rewrite(FixImports(SortLabels(genFile))))
    ELSE LET minorFile == FixFileMinor(cfg, oldFile)
             fixedFile == IF cfg.ShouldFix THEN FixFile(cfg, minorFile) ELSE minorFile
             mergedFile == MergeWithExisting(genFile, fixedFile, empty)
         IN  IF mergedFile.isNil THEN NoEmit(fixedFile, mergedFile)
             ELSE Emit(fixedFile, mergedFile, Rewrite(FixImports(SortLabels(mergedFile))))

\* The emit functions: fixFile writes the file to disk, printFile and
\* diffFile write to standard output only.
EmitModes == {"print", "fix", "diff"}
emitFile(mode, onDisk, file) == IF mode = "fix" THEN file ELSE onDisk

\* The existing file as run's callback stores it in the visit record: fixed
\* when ShouldFix is set.
VisitOldFile(cfg, oldFile) ==
    IF oldFile.isNil THEN oldFile
    ELSE IF cfg.ShouldFix THEN FixFile(cfg, oldFile) ELSE oldFile

\* rules.NewGenerator and GenerateRules in run's callback, lines 117-118:
\* the rules and the empty rules of the directory's package.  The generator
\* is given the existing file, but generation is a function of the Package
\* (spec, 4.5), and the Package of an unchanged source tree is the same in
\* every run.
GenerateFor(gen, oldFile) == gen

MaxMergeRuns == 2

\* One run of the program over a directory that has a package: the callback
\* reads the existing file from disk and generates the rules, and
\* mergeAndEmit merges and emits.  The record of the run holds the file as
\* it was on disk and the file as it was emitted.
RunMergeAndEmit ==
    /\ mergeIn.fn = "mergeAndEmit"
    /\ mrun < MaxMergeRuns
    /\ LET oldFile == VisitOldFile(mergeIn.c, disk)
           gen == GenerateFor(mergeIn.gen, oldFile)
           r == mergeAndEmit(mergeIn.c, BuildFile(FALSE, gen.rules), oldFile, gen.empty)
       IN  /\ merged' = [existing |-> disk, emit |-> r.emit, file |-> r.file]
           /\ emitted' = IF r.emit THEN Append(emitted, r.file) ELSE emitted
           /\ disk' = IF r.emit THEN emitFile(mergeIn.emit, disk, r.file) ELSE disk
    /\ mrun' = mrun + 1
    /\ UNCHANGED mergeIn
    /\ UNCHANGED nonMergeVars

NextMerge == RunMergeAndEmit

\* The existing library rule in its variants: pinned or not, with manual or
\* unsorted dependencies, with pinned attributes.
OldLibRules ==
    {BuildRule(k_go_library, "go_default_library", keep, deps, depsKeep, cgo, cgoKeep) :
        keep \in BOOLEAN, deps \in {<<n_c>>, <<n_b, n_a>>}, depsKeep \in BOOLEAN,
        cgo \in {"", "True"}, cgoKeep \in BOOLEAN}

\* What else the existing file holds: nothing, a test rule, a deprecated cgo
\* library.
OldOtherRules ==
    {<<>>} \cup
    {<<BuildRule(k_go_test, "go_default_test", keep, <<n_x>>, FALSE, "", FALSE)>> : keep \in BOOLEAN} \cup
    {<<BuildRule(k_cgo_library, CgoDefaultLibName, keep, <<n_x, n_a>>, FALSE, "", FALSE)>> : keep \in BOOLEAN}

\* The rules of a file with legacy protos (README.rst:317-331), the
\* go_proto_library pinned or not.
LegacyProtoRules ==
    {<<BuildRule(k_go_proto_library, "a_proto", keep, <<n_x>>, FALSE, "", FALSE),
       BuildRule(k_filegroup, DefaultProtosName, FALSE, <<>>, FALSE, "", FALSE)>> :
        keep \in BOOLEAN}

\* An existing file as gazelle left it, or as it was written by hand.
Tidy(f) == Rewrite(FixImports(f))
ByHand(f) == [f EXCEPT !.minor = TRUE]

\* The build file of the directory before the first run: none, or a file
\* with or without the ignore directive, with or without a library rule,
\* with legacy protos.
OldFiles ==
    {NoBuildFile} \cup
    {IF tidy THEN Tidy(BuildFile(ignore, <<lib>> \o others))
     ELSE ByHand(BuildFile(ignore, <<lib>> \o others)) :
        tidy \in BOOLEAN, ignore \in BOOLEAN, lib \in OldLibRules, others \in OldOtherRules} \cup
    {IF tidy THEN Tidy(BuildFile(ignore, others)) ELSE ByHand(BuildFile(ignore, others)) :
        tidy \in BOOLEAN, ignore \in BOOLEAN, others \in OldOtherRules} \cup
    {[Tidy(BuildFile(FALSE, <<lib>> \o protos)) EXCEPT !.legacyProto = TRUE] :
        lib \in {BuildRule(k_go_library, "go_default_library", FALSE, <<n_c>>, FALSE, "", FALSE)},
        protos \in LegacyProtoRules}

GenLib == BuildRule(k_go_library, "go_default_library", FALSE, <<n_b, n_a>>, FALSE, "False", FALSE)
GenTest == BuildRule(k_go_test, "go_default_test", FALSE, <<n_c, n_a>>, FALSE, "", FALSE)

\* What generation yields for the package: the rules and the empty rules.
Generations ==
    {[rules |-> <<GenLib>>, empty |-> <<GenTest>>],
     [rules |-> <<GenLib, GenTest>>, empty |-> <<>>],
     [rules |-> <<GenTest>>, empty |-> <<GenLib>>]}

MergeConfigs ==
    {[ShouldFix |-> fix, ProtoMode |-> mode] : fix \in BOOLEAN, mode \in {"default", "legacy"}}

InitMerge ==
    /\ IdleWalk
    /\ IdleRun
    /\ IdleCache
    /\ visits = <<>>
    /\ generated = <<>>
    /\ rpos = [v |-> 1, r |-> 1]
    /\ fnCall = NoCall
    /\ fnResult = NoResult
    /\ \E cfg \in MergeConfigs, mode \in EmitModes, gen \in Generations, old \in OldFiles :
          /\ mergeIn = [fn |-> "mergeAndEmit", c |-> cfg, emit |-> mode,
                        gen |-> gen, existing |-> old]
          /\ disk = old
    /\ merged = [existing |-> NoBuildFile, emit |-> FALSE, file |-> NoBuildFile]
    /\ emitted = <<>>
    /\ mrun = 0

SpecMerge == InitMerge /\ [][NextMerge]_vars

\* C18: a directory whose existing build file carries the ignore directive
\* gets nothing emitted, and its file on disk stays as it was, in every emit
\* mode and with fix enabled.
C18_IgnoredNotEmitted ==
    (mergeIn.fn = "mergeAndEmit" /\ ~mergeIn.existing.isNil /\ mergeIn.existing.ignore)
        => (emitted = <<>> /\ disk = mergeIn.existing)

C18_Witness ==
    /\ mergeIn.fn = "mergeAndEmit"
    /\ ~mergeIn.existing.isNil
    /\ mergeIn.existing.ignore
    /\ mergeIn.c.ShouldFix
    /\ mergeIn.emit = "fix"
    /\ \E i \in DOMAIN mergeIn.existing.rules : mergeIn.existing.rules[i].kind = k_cgo_library
    /\ mrun = MaxMergeRuns

\* The rules of a file with the kind and name of r.
SameRule(rules, r) == {rules[j] : j \in {k \in DOMAIN rules : rules[k].kind = r.kind /\ rules[k].name = r.name}}

\* C19: a pinned rule of the existing build file is in the emitted file as
\* it was on disk, and a pinned attribute has the value and the pin it had,
\* whatever generation supplies, whether or not the rule is an empty
\* candidate, and with or without fix.
C19_PinnedUnchanged ==
    (~merged.existing.isNil /\ merged.emit) =>
        \A i \in DOMAIN merged.existing.rules :
            LET r == merged.existing.rules[i]
                after == SameRule(merged.file.rules, r)
            IN  /\ r.keep => after = {r}
                /\ r.depsKeep => \E n \in after : n.deps = r.deps /\ n.depsKeep
                /\ r.cgoKeep => \E n \in after : n.cgo = r.cgo /\ n.cgoKeep

\* What holds of the pins all the same: a pinned rule is emitted with the
\* kind, name, pins, flag and dependencies it had, and a pinned attribute
\* with its value and pin, the dependencies in sorted order.
Sorted(r) == [r EXCEPT !.deps = SortList(@)]

PinnedUpToOrder ==
    (~merged.existing.isNil /\ merged.emit) =>
        \A i \in DOMAIN merged.existing.rules :
            LET r == merged.existing.rules[i]
                after == SameRule(merged.file.rules, r)
            IN  /\ r.keep => after = {Sorted(r)}
                /\ r.depsKeep => \E n \in after : n.deps = SortList(r.deps) /\ n.depsKeep
                /\ r.cgoKeep => \E n \in after : n.cgo = r.cgo /\ n.cgoKeep

DefaultBuildFileName(cfg) == cfg.ValidBuildFileNames[1]

\* rules.Generator.GenerateRules: the rules of a package and its empty rules;
\* a package has a library rule with the raw imports to be resolved.
GenerateRules(pkg) ==
    [rules |-> <<GenRuleExpr("go_library",
                    <<Attr("name", StringExpr("go_default_library")),
                      Attr(TazeImportsKey, Strs(<<>>))>>)>>,
     empty |-> <<>>]

\* run, lines 116-122: the visit record of a directory with a package; walk
\* is the iteration of the loop over c.Dirs that appended it.
\* merger.MergeWithExisting returns nil for a build file that carries the
\* ignore directive.
IgnoredFile(oldFile) ==
    /\ ~oldFile.isNil
    /\ \E i \in DOMAIN ParseDirectives(oldFile) : ParseDirectives(oldFile)[i].Key = "ignore"

RunVisit(call, walk) ==
    [pkgRel |-> call.rel, buildRel |-> call.rel,
     rules |-> GenerateRules(call.pkg).rules, empty |-> GenerateRules(call.pkg).empty,
     oldFile |-> call.oldFile, walk |-> walk]

\* Something run did for a directory, in an iteration of its loop over c.Dirs.
Event(op, rel, walk) == [op |-> op, rel |-> rel, walk |-> walk]

\* run, lines 96-127: visit returns in a directory and invokes run's
\* callback, which generates rules and appends a visit record when there is
\* a package. merger.FixFile gives the callback a new file in memory and
\* leaves the one on disk alone.
RunVisitReturn ==
    /\ runIn.fn = "run"
    /\ VisitReturnStep
    /\ LET call == calls'[Len(calls')]
       IN  IF call.pkg.isNil
           THEN UNCHANGED <<visits, events>>
           ELSE /\ visits' = Append(visits, RunVisit(call, dirIdx))
                /\ events' = Append(events, Event("generate", call.rel, dirIdx))
    /\ UNCHANGED <<generated, rpos, fnCall, fnResult, runIn, dirIdx, mpos>>
    /\ UNCHANGED <<mergeVars, cacheVars>>

\* run, lines 130-135: Walk has returned; every rule of every visit record
\* is handed to the resolver.
RunResolve ==
    /\ runIn.fn = "run"
    /\ pc = "done"
    /\ visits' = [i \in DOMAIN visits |->
                     [visits[i] EXCEPT !.rules =
                         [j \in DOMAIN @ |-> ResolveRule(@[j], visits[i].pkgRel, visits[i].buildRel)]]]
    /\ events' = events \o [i \in DOMAIN visits |-> Event("resolve", visits[i].pkgRel, dirIdx)]
    /\ pc' = "merging"
    /\ mpos' = 1
    /\ UNCHANGED <<fs, cfg0, c, stack, calls, entered, log, run, prevCalls, prevLog, changed>>
    /\ UNCHANGED <<generated, rpos, fnCall, fnResult, runIn, dirIdx>>
    /\ UNCHANGED <<mergeVars, cacheVars>>

\* run, lines 138-146: mergeAndEmit for the next visit record. fixFile
\* writes the build file of the directory: the existing file keeps its name,
\* directives and loads, a new file gets the default name, and with an empty
\* default name the path is the directory and nothing can be written.
RunMergeLoop ==
    /\ runIn.fn = "run"
    /\ pc = "merging"
    /\ mpos <= Len(visits)
    /\ LET v == visits[mpos]
           path == Append(v.pkgRel, IF v.oldFile.isNil THEN DefaultBuildFileName(cfg0.c)
                                    ELSE v.oldFile.base)
           emits == v.oldFile.isNil \/ ~IgnoredFile(v.oldFile)
       IN  /\ events' = events \o <<Event("merge", v.pkgRel, dirIdx)>>
                            \o (IF emits THEN <<Event("emit", v.pkgRel, dirIdx)>> ELSE <<>>)
           /\ fs' = IF emits /\ runIn.mode = "fix" /\ path \notin DOMAIN fs
                       /\ path[Len(path)] # <<>>
                    THEN fs @@ (path :> Build(<<>>, "none", <<>>))
                    ELSE fs
    /\ mpos' = mpos + 1
    /\ UNCHANGED <<cfg0, c, stack, calls, entered, log, pc, run, prevCalls, prevLog, changed>>
    /\ UNCHANGED <<resolveVars, runIn, dirIdx>>
    /\ UNCHANGED <<mergeVars, cacheVars>>

\* run, line 95: the loop over c.Dirs goes on with the next directory, where
\* Walk starts from the configuration run was given, or ends.
RunNextDir ==
    /\ runIn.fn = "run"
    /\ pc = "merging"
    /\ mpos > Len(visits)
    /\ IF dirIdx < Len(cfg0.c.Dirs)
       THEN /\ dirIdx' = dirIdx + 1
            /\ cfg0' = [cfg0 EXCEPT !.root = cfg0.c.Dirs[dirIdx + 1]]
            /\ c' = cfg0.c
            /\ pc' = "start"
       ELSE /\ pc' = "finished"
            /\ UNCHANGED <<dirIdx, cfg0, c>>
    /\ UNCHANGED <<fs, stack, calls, entered, log, run, prevCalls, prevLog, changed>>
    /\ UNCHANGED <<resolveVars, runIn, mpos, events>>
    /\ UNCHANGED <<mergeVars, cacheVars>>

\* strings.Split(s, sep) for a separator of one character: the pieces
\* between the separators, one more than there are separators.
RECURSIVE Split(_, _)
Split(str, sep) ==
    IF \A i \in DOMAIN str : str[i] # sep THEN <<str>>
    ELSE LET k == CHOOSE i \in DOMAIN str : str[i] = sep /\ \A j \in 1..(i - 1) : str[j] # sep
         IN  <<SubSeq(str, 1, k - 1)>> \o Split(SubSeq(str, k + 1, Len(str)), sep)

\* newConfiguration, lines 245-335: the configuration for the flags, or an
\* error. Of the flags, -build_file_name and -mode are carried, and of the
\* arguments the command and the directories.
newConfiguration(args) ==
    LET names == Split(args.buildFileName, ",")
        dirs == IF Len(args.dirs) = 0 THEN <<args.cwd>> ELSE args.dirs
        conf == Config(dirs, <<>>, "external")
    IN  IF Len(names) = 0
        THEN [err |-> "no valid build file names specified", c |-> conf,
              cmd |-> args.cmd, emit |-> "none", ShouldFix |-> FALSE]
        ELSE IF args.mode \notin EmitModes
        THEN [err |-> "unrecognized emit mode", c |-> conf,
              cmd |-> args.cmd, emit |-> "none", ShouldFix |-> FALSE]
        ELSE [err |-> "none",
              c |-> [conf EXCEPT !.ValidBuildFileNames = names],
              cmd |-> args.cmd, emit |-> args.mode, ShouldFix |-> args.cmd = "fix"]

\* main, lines 233-243: newConfiguration, then log.Fatal on an error and
\* run otherwise.
Main ==
    /\ runIn.fn = "run"
    /\ pc = "main"
    /\ LET conf == newConfiguration(runIn)
       IN  IF conf.err # "none"
           THEN /\ pc' = "fatal"
                /\ UNCHANGED <<c, cfg0>>
           ELSE /\ pc' = "start"
                /\ c' = conf.c
                /\ cfg0' = [c |-> conf.c, root |-> conf.c.Dirs[1]]
    /\ UNCHANGED <<fs, stack, calls, entered, log, run, prevCalls, prevLog, changed>>
    /\ UNCHANGED <<resolveVars, runVars>>
    /\ UNCHANGED <<mergeVars, cacheVars>>

NextRun == Main \/ WalkStart \/ VisitSubdir \/ RunVisitReturn \/ RunResolve \/ RunMergeLoop \/ RunNextDir

\* Directory b with a schema file only.
BProtoOnly ==
    {(<<n_b>> :> Dir) @@ (<<n_b, f_a_proto>> :> ProtoSrc(n_b)) @@ build :
        build \in {Nothing, <<n_b, f_BUILD>> :> Build(<<>>, "none", <<>>)}}

\* Repositories for run: directory a with or without a build file that
\* disables schema rules and with or without a subdirectory, directory b
\* with sources or with a schema file only, and an empty directory c.
RunTrees ==
    {(<<>> :> Dir) @@ (<<n_a>> :> Dir) @@ (<<n_a, f_a_go>> :> GoSrc(n_a, FALSE)) @@ abuild @@ ax @@ b
        @@ (<<n_c>> :> Dir) @@ (<<n_c, f_BUILD>> :> Build(<<>>, "none", <<>>)) :
        abuild \in {Nothing, <<n_a, f_BUILD>> :> Build(<<Proto(m_disable)>>, "none", <<>>),
                    <<n_a, f_BUILD>> :> Build(<<Ignore>>, "none", <<>>),
                    <<n_a, f_BUILD>> :> Malformed},
        ax \in {Nothing, (<<n_a, n_x>> :> Dir) @@ (<<n_a, n_x, f_c_go>> :> GoSrc(n_x, FALSE))},
        b \in BProtoOnly \cup {BDefault}}

\* The lists of requested directories.
RunDirs ==
    {<<>>, <<<<>>>>, <<<<n_a>>>>, <<<<n_a>>, <<n_b>>>>, <<<<>>, <<n_b>>>>, <<<<n_a>>, <<n_a, n_x>>>>,
     <<<<n_c>>, <<n_b>>>>}

comma == ","

\* The default of -build_file_name, and other values given for it.
BuildFileNameDefault == f_BUILD_bazel \o <<comma>> \o f_BUILD
BuildFileNameFlags == {<<>>, f_BUILD, f_BUILD \o <<comma>>, <<comma>> \o f_BUILD}

\* The command and the flags: any command and mode with the default build
\* file names, or other build file names with the defaults.
RunFlags ==
    {[cmd |-> cmd, mode |-> mode, buildFileName |-> BuildFileNameDefault] :
        cmd \in {"update", "fix"}, mode \in EmitModes \cup {"patch"}}
    \cup {[cmd |-> "update", mode |-> "fix", buildFileName |-> flag] : flag \in BuildFileNameFlags}

InitRun ==
    /\ \E tree \in RunTrees, dirs \in RunDirs :
          /\ \A i \in DOMAIN dirs : dirs[i] \in DOMAIN tree
          /\ fs = tree
          /\ \E args \in RunFlags :
                runIn = [fn |-> "run", cmd |-> args.cmd, mode |-> args.mode,
                         buildFileName |-> args.buildFileName, dirs |-> dirs, cwd |-> <<>>]
    /\ cfg0 = [c |-> Config(<<<<>>>>, <<>>, "external"), root |-> <<>>]
    /\ c = Config(<<<<>>>>, <<>>, "external")
    /\ stack = <<>>
    /\ calls = <<>>
    /\ entered = <<>>
    /\ log = <<>>
    /\ pc = "main"
    /\ run = 1
    /\ prevCalls = <<>>
    /\ prevLog = <<>>
    /\ changed = NoChange
    /\ visits = <<>>
    /\ generated = <<>>
    /\ rpos = [v |-> 1, r |-> 1]
    /\ fnCall = NoCall
    /\ fnResult = NoResult
    /\ IdleMerge
    /\ IdleCache
    /\ dirIdx = 1
    /\ mpos = 1
    /\ events = <<>>

SpecRun == InitRun /\ [][NextRun]_vars

\* C21: a directory whose callback received no Package has no visit record,
\* and run did nothing for it: no rules generated, nothing resolved, merged or
\* emitted, so that its build file is as it was.
C21_NoPackageNoOutput ==
    runIn.fn = "run" =>
        \A i \in DOMAIN calls :
            calls[i].pkg.isNil =>
                /\ \A v \in DOMAIN visits : visits[v].pkgRel # calls[i].rel
                /\ \A e \in DOMAIN events : events[e].rel # calls[i].rel

\* C22: whatever run resolves, merges or emits, it does after Walk has
\* returned for every requested directory, that is in the last iteration of
\* its loop over c.Dirs.
C22_GenerationFirst ==
    runIn.fn = "run" =>
        \A i \in DOMAIN events :
            events[i].op \in {"resolve", "merge", "emit"} => events[i].walk = Len(cfg0.c.Dirs)

\* C24: the rules of a directory are merged at most once and emitted at most
\* once in a run.
C24_EmittedOnce ==
    runIn.fn = "run" =>
        \A i, j \in DOMAIN events :
            (events[i].op \in {"merge", "emit"} /\ events[j].op = events[i].op
                /\ events[j].rel = events[i].rel) => i = j

\* The names a value of -build_file_name gives: the non-empty pieces between
\* the commas.
UsableNames(flag) == SelectSeq(Split(flag, comma), LAMBDA name : name # <<>>)

\* C23: when -build_file_name gives no usable name, main ends with the error
\* of newConfiguration and nothing is walked; and the configuration that
\* newConfiguration returns has at least one build file name, none of them
\* empty.
C23_BuildFileNames ==
    (runIn.fn = "run" /\ pc # "main") =>
        /\ UsableNames(runIn.buildFileName) = <<>> => (pc = "fatal" /\ entered = <<>>)
        /\ pc # "fatal" =>
              /\ Len(cfg0.c.ValidBuildFileNames) >= 1
              /\ \A i \in DOMAIN cfg0.c.ValidBuildFileNames : cfg0.c.ValidBuildFileNames[i] # <<>>

\* C26: after mapExprStrings has returned, the expression it was given is
\* the expression it was before the call.
C26_InputUnchanged ==
    (fnCall.fn = "mapExprStrings" /\ fnResult.done) => fnResult.after = fnCall.e

\* C27: in both dependency modes resolveGo answers with a label or an error
\* value; it does not call through an external resolver that is nil.
C27_ResolverSet ==
    (fnCall.fn = "resolveGo" /\ fnResult.done) => fnResult.out.kind # "panic"

\* C28: a Package holds C or preprocessed assembly sources, which addFile
\* takes with the cgo flag only, only if a parsed Go file of the Package's own
\* name carries the cgo marker.
C28_CgoOfSelected ==
    \A i \in DOMAIN calls :
        LET pkg == calls[i].pkg
            pkgFiles == calls[i].frame.pkgFiles
        IN  (~pkg.isNil /\ \E k \in DOMAIN pkg.Sources : Category(pkg.Sources[k]) \in {"c", "cs"}) =>
                \E k \in DOMAIN pkgFiles :
                    /\ PathExt(pkgFiles[k]) = ext_go
                    /\ goFileInfo(fs, calls[i].rel, pkgFiles[k]).packageName = pkg.Name
                    /\ goFileInfo(fs, calls[i].rel, pkgFiles[k]).isCgo

\* ---------------------------------------------------------------------------
\* concatjs: FileCache (internal/concatjs/concatjs.go)
\*
\* A file's contents are a sequence of tokens: single characters, and the
\* word "goog.module" as one token.  What is written to w is a sequence with
\* one element per listed file, each a sequence of tokens.
\* ---------------------------------------------------------------------------

NilBytes == [isNil |-> TRUE]

Bytes(toks) == [isNil |-> FALSE, toks |-> toks]

NilErr == "nil"

\* The zero value of cacheEntry: &cacheEntry{}.  Modification time 0 is the
\* zero time.Time, which no file on disk has.
ZeroEntry == [err |-> NilErr, mtime |-> 0, contents |-> NilBytes]

RECURSIVE writeJSEscaped(_)
writeJSEscaped(contents) ==
    IF contents = <<>> THEN <<>>
    ELSE LET b == Head(contents)
             esc == CASE b = "\n" -> <<"\\", "n">>
                      [] b = "\r" -> <<"\\", "r">>
                      [] b \in {"\\", "'"} -> <<"\\", b>>
                      [] OTHER -> <<b>>
         IN  esc \o writeJSEscaped(Tail(contents))

WhiteSpace == {" ", "\t", "\n", "\r", "\f"}

\* The first position from i on that holds no white space.
RECURSIVE SkipSpace(_, _)
SkipSpace(s, i) ==
    IF i <= Len(s) /\ s[i] \in WhiteSpace THEN SkipSpace(s, i + 1) ELSE i

googModuleSearchLimit == 50000

\* googModuleRegExp.Match: (?m)^\s*goog\.module\s*\(\s*['"]
googModuleRegExp(s) ==
    \E i \in 1..Len(s) :
        /\ i = 1 \/ s[i - 1] = "\n"
        /\ LET a == SkipSpace(s, i)
               b == SkipSpace(s, a + 1)
               d == SkipSpace(s, b + 1)
           IN  /\ d <= Len(s)
               /\ s[a] = "goog.module"
               /\ s[b] = "("
               /\ s[d] \in {"'", "\""}

statMtime(fsys, path) ==
    IF fsys[path].exists
    THEN [err |-> NilErr, mtime |-> fsys[path].mtime]
    ELSE [err |-> "stat: no such file", mtime |-> 0]

readFile(fsys, path) ==
    IF ~fsys[path].exists THEN [err |-> "open: no such file", contents |-> NilBytes]
    ELSE IF ~fsys[path].readable
    THEN [err |-> "open: permission denied", contents |-> NilBytes]
    ELSE [err |-> NilErr, contents |-> Bytes(fsys[path].data)]

fileContents(path, fsys) ==
    LET r == readFile(fsys, path) IN
    IF r.err # NilErr THEN [err |-> r.err, contents |-> NilBytes]
    ELSE LET contents == r.contents.toks
             limit == IF Len(contents) < googModuleSearchLimit
                      THEN Len(contents) ELSE googModuleSearchLimit
             open == IF googModuleRegExp(SubSeq(contents, 1, limit))
                     THEN <<"goog.loadModule('">>
                     ELSE <<"eval('">>
         IN  [err |-> NilErr,
              contents |-> Bytes(open \o writeJSEscaped(contents)
                                 \o <<"\\n\\n//# sourceURL=http://concatjs/", path, "\\n');\n">>)]

writeJSError(path, err) ==
    <<"throw new Error('", "loading ", path, " failed: ", err, "');\n">>

UpToDateAnyMtime(e, mt) == e.contents # NilBytes

\* cacheEntry.refresh finds the entry up to date and does not read the file.
UpToDate(e, mt) == e.mtime = mt /\ e.contents # NilBytes

NumWorkersOneLess(files) == Len(files) - 1

\* The number of goroutines refreshFiles starts.
NumWorkers(files) == Len(files)


MaxFiles == 2
MaxChanges == 1

CachePaths == {"a.js", "b.js"}

\* File contents: a plain script with characters that are escaped, and a
\* goog.module declaration.
CacheData == {<<"'", "\n">>, <<"goog.module", "(", "'">>}

JsFile(exists, readable, mtime, data) ==
    [exists |-> exists, readable |-> readable, mtime |-> mtime, data |-> data]

RECURSIVE SeqsUpTo(_, _)
SeqsUpTo(S, n) ==
    IF n = 0 THEN {<<>>}
    ELSE LET shorter == SeqsUpTo(S, n - 1)
         IN  shorter \cup {Append(q, x) : q \in shorter, x \in S}

\* The manifests: every list of at most MaxFiles paths, repeated paths included.
FileLists == SeqsUpTo(CachePaths, MaxFiles)

NewWorker == [pc |-> "recv", item |-> 0, path |-> "", mt |-> 0,
              contents |-> NilBytes, err |-> NilErr]

\* The calling goroutine is inside refreshFiles.
InRefreshFiles == cpc \in {"range", "send", "wait"}

\* WriteFiles is called: refreshFiles makes the channel, adds len(files) to
\* the wait group and starts the goroutines, which block on the channel.
WriteFiles ==
    /\ cpc = "idle"
    /\ \E files \in FileLists :
        /\ wfiles' = files
        /\ workers' = [w \in 1..NumWorkers(files) |-> NewWorker]
        /\ wg' = Len(files)
    /\ cpc' = "range"
    /\ sent' = 0
    /\ written' = <<>>
    /\ entries0' = entries
    /\ UNCHANGED <<jsfs, entries, readLog, changes>>
    /\ UNCHANGED nonCacheVars

\* for _, path := range files: look the entry up, make it when it is missing.
GetEntry ==
    /\ cpc = "range"
    /\ sent < Len(wfiles)
    /\ LET path == wfiles[sent + 1] IN
       entries' = IF path \in DOMAIN entries THEN entries
                  ELSE entries @@ (path :> ZeroEntry)
    /\ cpc' = "send"
    /\ UNCHANGED <<jsfs, entries0, wfiles, sent, workers, wg, written, readLog, changes>>
    /\ UNCHANGED nonCacheVars

\* work <- workItem{path, entry} meets w := <-work of one blocked goroutine:
\* the channel is unbuffered.  The goroutines run the same function and
\* differ in nothing before they receive, so the blocked goroutine with the
\* least number stands for whichever the runtime wakes.
SendWork(w) ==
    /\ cpc = "send"
    /\ w \in DOMAIN workers
    /\ workers[w].pc = "recv"
    /\ \A v \in DOMAIN workers : workers[v].pc = "recv" => w <= v
    /\ workers' = [workers EXCEPT ![w].pc = "refresh",
                                  ![w].item = sent + 1,
                                  ![w].path = wfiles[sent + 1]]
    /\ sent' = sent + 1
    /\ cpc' = "range"
    /\ UNCHANGED <<jsfs, entries, entries0, wfiles, wg, written, readLog, changes>>
    /\ UNCHANGED nonCacheVars

\* close(work): a goroutine still blocked on the channel receives the zero
\* workItem and dereferences its nil entry.
CloseWork ==
    /\ cpc = "range"
    /\ sent = Len(wfiles)
    /\ workers' = [w \in DOMAIN workers |->
                     IF workers[w].pc = "recv"
                     THEN [workers[w] EXCEPT !.pc = "panic"]
                     ELSE workers[w]]
    /\ cpc' = "wait"
    /\ UNCHANGED <<jsfs, entries, entries0, wfiles, sent, wg, written, readLog, changes>>
    /\ UNCHANGED nonCacheVars

\* cacheEntry.refresh up to its decision whether to read the file.
RefreshStat(w) ==
    /\ w \in DOMAIN workers
    /\ workers[w].pc = "refresh"
    /\ LET path == workers[w].path
           st == statMtime(jsfs, path)
       IN  workers' =
             IF st.err # NilErr
             THEN [workers EXCEPT ![w].pc = "err", ![w].err = st.err]
             ELSE IF UpToDate(entries[path], st.mtime)
             THEN [workers EXCEPT ![w].pc = "err", ![w].err = NilErr]
             ELSE [workers EXCEPT ![w].pc = "read", ![w].mt = st.mtime]
    /\ UNCHANGED <<jsfs, entries, entries0, wfiles, cpc, sent, wg, written, readLog, changes>>
    /\ UNCHANGED nonCacheVars

\* contents, err := fileContents(root, path, fs)
RefreshRead(w) ==
    /\ w \in DOMAIN workers
    /\ workers[w].pc = "read"
    /\ LET path == workers[w].path
           r == fileContents(path, jsfs)
       IN  /\ workers' =
                IF r.err # NilErr
                THEN [workers EXCEPT ![w].pc = "err", ![w].err = r.err]
                ELSE [workers EXCEPT ![w].pc = "mtime", ![w].contents = r.contents]
           /\ readLog' = readLog \cup {path}
    /\ UNCHANGED <<jsfs, entries, entries0, wfiles, cpc, sent, wg, written, changes>>
    /\ UNCHANGED nonCacheVars

\* e.mtime = mt
StoreMtime(w) ==
    /\ w \in DOMAIN workers
    /\ workers[w].pc = "mtime"
    /\ entries' = [entries EXCEPT ![workers[w].path].mtime = workers[w].mt]
    /\ workers' = [workers EXCEPT ![w].pc = "contents"]
    /\ UNCHANGED <<jsfs, entries0, wfiles, cpc, sent, wg, written, readLog, changes>>
    /\ UNCHANGED nonCacheVars

\* e.contents = contents; return nil
StoreContents(w) ==
    /\ w \in DOMAIN workers
    /\ workers[w].pc = "contents"
    /\ entries' = [entries EXCEPT ![workers[w].path].contents = workers[w].contents]
    /\ workers' = [workers EXCEPT ![w].pc = "err", ![w].err = NilErr]
    /\ UNCHANGED <<jsfs, entries0, wfiles, cpc, sent, wg, written, readLog, changes>>
    /\ UNCHANGED nonCacheVars

\* w.entry.err = <what refresh returned>
StoreErr(w) ==
    /\ w \in DOMAIN workers
    /\ workers[w].pc = "err"
    /\ entries' = [entries EXCEPT ![workers[w].path].err = workers[w].err]
    /\ workers' = [workers EXCEPT ![w].pc = "done"]
    /\ UNCHANGED <<jsfs, entries0, wfiles, cpc, sent, wg, written, readLog, changes>>
    /\ UNCHANGED nonCacheVars

\* wg.Done(), and the goroutine ends.
WorkerDone(w) ==
    /\ w \in DOMAIN workers
    /\ workers[w].pc = "done"
    /\ wg' = wg - 1
    /\ workers' = [workers EXCEPT ![w] = [NewWorker EXCEPT !.pc = "exit", !.item = workers[w].item]]
    /\ UNCHANGED <<jsfs, entries, entries0, wfiles, cpc, sent, written, readLog, changes>>
    /\ UNCHANGED nonCacheVars

\* wg.Wait() returns, and with it refreshFiles.
WaitReturns ==
    /\ cpc = "wait"
    /\ wg = 0
    /\ cpc' = "stream"
    /\ UNCHANGED <<jsfs, entries, entries0, wfiles, sent, workers, wg, written, readLog, changes>>
    /\ UNCHANGED nonCacheVars

\* fmt.Fprintf(w, "// %s\n", path)
Header(path) == <<"// ", path, "\n">>

\* One round of WriteFiles' loop over files.  The writer takes every write.
StreamFile ==
    /\ cpc = "stream"
    /\ Len(written) < Len(wfiles)
    /\ LET path == wfiles[Len(written) + 1]
           ce == entries[path]
           header == Header(path)
       IN  written' = Append(written,
                 IF ce.err # NilErr THEN header \o writeJSError(path, ce.err)
                 ELSE IF ce.contents = NilBytes THEN header
                 ELSE header \o ce.contents.toks)
    /\ UNCHANGED <<jsfs, entries, entries0, wfiles, cpc, sent, workers, wg, readLog, changes>>
    /\ UNCHANGED nonCacheVars

\* WriteFiles returns nil.
WriteFilesReturn ==
    /\ cpc = "stream"
    /\ Len(written) = Len(wfiles)
    /\ cpc' = "idle"
    /\ wfiles' = <<>>
    /\ workers' = <<>>
    /\ written' = <<>>
    /\ sent' = 0
    /\ entries0' = <<>>
    /\ UNCHANGED <<jsfs, entries, wg, readLog, changes>>
    /\ UNCHANGED nonCacheVars

\* Between two calls a file is written: new contents, a new modification time.
FileWrite ==
    /\ cpc = "idle"
    /\ changes < MaxChanges
    /\ changes' = changes + 1
    /\ \E path \in CachePaths, data \in CacheData :
        /\ ~jsfs[path].exists \/ data # jsfs[path].data
        /\ jsfs' = [jsfs EXCEPT ![path] =
                      JsFile(TRUE, jsfs[path].readable, jsfs[path].mtime + 1, data)]
        /\ readLog' = readLog \ {path}
    /\ UNCHANGED <<entries, entries0, wfiles, cpc, sent, workers, wg, written>>
    /\ UNCHANGED nonCacheVars

\* Between two calls a file is removed.
FileRemove ==
    /\ cpc = "idle"
    /\ \E path \in CachePaths :
        /\ jsfs[path].exists
        /\ jsfs' = [jsfs EXCEPT ![path].exists = FALSE]
    /\ changes < MaxChanges
    /\ changes' = changes + 1
    /\ UNCHANGED <<entries, entries0, wfiles, cpc, sent, workers, wg, written, readLog>>
    /\ UNCHANGED nonCacheVars

\* Between two calls the permissions of a file change; its modification
\* time stays.
FileChmod ==
    /\ cpc = "idle"
    /\ \E path \in CachePaths :
        /\ jsfs[path].exists
        /\ jsfs' = [jsfs EXCEPT ![path].readable = ~@]
    /\ changes < MaxChanges
    /\ changes' = changes + 1
    /\ UNCHANGED <<entries, entries0, wfiles, cpc, sent, workers, wg, written, readLog>>
    /\ UNCHANGED nonCacheVars

MainStep == GetEntry \/ (\E w \in DOMAIN workers : SendWork(w)) \/ CloseWork
                \/ WaitReturns \/ StreamFile \/ WriteFilesReturn

WorkerStep(w) == RefreshStat(w) \/ RefreshRead(w) \/ StoreMtime(w)
                    \/ StoreContents(w) \/ StoreErr(w) \/ WorkerDone(w)

NextCache ==
    \/ WriteFiles
    \/ GetEntry
    \/ \E w \in DOMAIN workers : SendWork(w)
    \/ CloseWork
    \/ \E w \in DOMAIN workers : RefreshStat(w)
    \/ \E w \in DOMAIN workers : RefreshRead(w)
    \/ \E w \in DOMAIN workers : StoreMtime(w)
    \/ \E w \in DOMAIN workers : StoreContents(w)
    \/ \E w \in DOMAIN workers : StoreErr(w)
    \/ \E w \in DOMAIN workers : WorkerDone(w)
    \/ WaitReturns
    \/ StreamFile
    \/ WriteFilesReturn
    \/ FileWrite
    \/ FileRemove
    \/ FileChmod

\* NewFileCache, with every file on disk.
InitCache ==
    /\ IdleWalk
    /\ IdleMerge
    /\ IdleRun
    /\ visits = <<>>
    /\ generated = <<>>
    /\ rpos = [v |-> 1, r |-> 1]
    /\ fnCall = NoCall
    /\ fnResult = NoResult
    /\ jsfs = [path \in CachePaths |-> JsFile(TRUE, TRUE, 1, <<"'", "\n">>)]
    /\ entries = <<>>
    /\ entries0 = <<>>
    /\ wfiles = <<>>
    /\ cpc = "idle"
    /\ sent = 0
    /\ workers = <<>>
    /\ wg = 0
    /\ written = <<>>
    /\ readLog = {}
    /\ changes = 0

SpecCache == InitCache /\ [][NextCache]_vars

\* WriteFiles is called again and again on files that do not change.
NextRefresh ==
    \/ WriteFiles
    \/ GetEntry
    \/ \E w \in DOMAIN workers : SendWork(w)
    \/ CloseWork
    \/ \E w \in DOMAIN workers : RefreshStat(w)
    \/ \E w \in DOMAIN workers : RefreshRead(w)
    \/ \E w \in DOMAIN workers : StoreMtime(w)
    \/ \E w \in DOMAIN workers : StoreContents(w)
    \/ \E w \in DOMAIN workers : StoreErr(w)
    \/ \E w \in DOMAIN workers : WorkerDone(w)
    \/ WaitReturns
    \/ StreamFile
    \/ WriteFilesReturn

\* NewFileCache, with each file readable, unreadable or missing.
InitRefresh ==
    /\ IdleWalk
    /\ IdleMerge
    /\ IdleRun
    /\ visits = <<>>
    /\ generated = <<>>
    /\ rpos = [v |-> 1, r |-> 1]
    /\ fnCall = NoCall
    /\ fnResult = NoResult
    /\ jsfs \in [CachePaths -> {JsFile(TRUE, TRUE, 1, <<"goog.module", "(", "'">>),
                                JsFile(TRUE, FALSE, 1, <<"'", "\n">>),
                                JsFile(FALSE, TRUE, 0, <<>>)}]
    /\ entries = <<>>
    /\ entries0 = <<>>
    /\ wfiles = <<>>
    /\ cpc = "idle"
    /\ sent = 0
    /\ workers = <<>>
    /\ wg = 0
    /\ written = <<>>
    /\ readLog = {}
    /\ changes = 0

\* The Go scheduler runs every goroutine that is able to run: the caller of
\* WriteFiles and each goroutine refreshFiles started.
SpecRefreshFair ==
    /\ InitRefresh
    /\ [][NextRefresh]_vars
    /\ WF_vars(MainStep)
    /\ \A w \in 1..MaxFiles : WF_vars(WorkerStep(w))


\* Goroutine w is inside cacheEntry.refresh.
Refreshing(w) == workers[w].pc \in {"refresh", "read", "mtime", "contents"}

\* C25: while refreshFiles runs, no cache entry is inside refresh on two
\* goroutines at once, whatever the list of files, repeated paths included.
C25_OneRefreshPerEntry ==
    \A w1, w2 \in DOMAIN workers :
        (w1 # w2 /\ Refreshing(w1) /\ Refreshing(w2))
            => workers[w1].path # workers[w2].path


\* What WriteFiles wrote for the i-th listed file is the header and the
\* escaped contents of the file as it is on disk.
StreamsCurrent(i) ==
    LET path == wfiles[i] IN
    /\ jsfs[path].exists
    /\ written[i] = Header(path)
           \o fileContents(path, [jsfs EXCEPT ![path].readable = TRUE]).contents.toks

\* What WriteFiles wrote for the i-th listed file is the header and the
\* error statement of a refresh that failed.
StreamsError(i) ==
    LET path == wfiles[i] IN
    /\ entries[path].err # NilErr
    /\ written[i] = Header(path) \o writeJSError(path, entries[path].err)

StreamsFresh ==
    cpc = "stream" => \A i \in 1..Len(written) : StreamsCurrent(i) \/ StreamsError(i)

\* Nothing written is the stored contents of an entry whose refresh failed.
NoContentsOfFailed ==
    cpc = "stream" =>
        \A i \in 1..Len(written) :
            LET e == entries[wfiles[i]] IN
            (e.err # NilErr /\ e.contents # NilBytes)
                => written[i] # Header(wfiles[i]) \o e.contents.toks

\* C29 as claimed: WriteFiles streams, in the order of the list, for each file
\* the header and then the current contents or the error of the failed
\* refresh, never the stored contents of a failed entry, and no goroutine
\* goes on to read a file that was read before and has not changed since.
C29_ReadOncePerMtime ==
    /\ StreamsFresh
    /\ NoContentsOfFailed
    /\ \A w \in DOMAIN workers :
          workers[w].pc = "read" => workers[w].path \notin readLog

\* The entry of path held, when the current call began, contents stored with
\* the modification time the file has now.
StoredAtCallStart(path) ==
    /\ path \in DOMAIN entries0
    /\ jsfs[path].exists
    /\ UpToDate(entries0[path], jsfs[path].mtime)

\* C29, amended: the same, except that only a file whose entry held, when the
\* call began, contents stored with the file's current modification time is
\* not read in that call.
C29_StoredNotReadAgain ==
    /\ StreamsFresh
    /\ NoContentsOfFailed
    /\ \A w \in DOMAIN workers :
          workers[w].pc = "read" => ~StoredAtCallStart(workers[w].path)

\* A call has streamed the new contents of a.js, which was written after it
\* was cached, and the contents of b.js, cached and not changed since, from
\* its entry.
C29_Witness ==
    /\ cpc = "stream"
    /\ Len(written) = 2
    /\ wfiles = <<"a.js", "b.js">>
    /\ "a.js" \in DOMAIN entries0
    /\ entries0["a.js"].contents # NilBytes
    /\ entries0["a.js"].contents # entries["a.js"].contents
    /\ StreamsCurrent(1)
    /\ StoredAtCallStart("b.js")
    /\ StreamsCurrent(2)


\* Every work item sent so far was received by exactly one goroutine.
ReceivedOnce ==
    \A i \in 1..sent : Cardinality({w \in DOMAIN workers : workers[w].item = i}) = 1

\* refreshFiles has returned: every item was sent, every goroutine has ended
\* and every listed path has an entry.
RefreshFilesDone ==
    /\ sent = Len(wfiles)
    /\ \A w \in DOMAIN workers : workers[w].pc = "exit"
    /\ \A i \in 1..Len(wfiles) : wfiles[i] \in DOMAIN entries

\* C30: refreshFiles always terminates: every work item is received by exactly
\* one goroutine, every goroutine ends and wg.Wait returns, and then every
\* listed path has a cache entry.
C30_RefreshFilesTerminates ==
    /\ [](ReceivedOnce /\ (cpc = "stream" => RefreshFilesDone))
    /\ (InRefreshFiles ~> cpc = "stream")

\* refreshFiles has returned from a list that names one path twice.
C30_Witness ==
    /\ cpc = "stream"
    /\ wfiles = <<"a.js", "a.js">>
    /\ RefreshFilesDone
    /\ wg = 0

====
